---------------------------- MODULE Spec2Model ----------------------------
(***************************************************************************)
(* UpdaTA: the plan executor (updata_execute.py) and the strategy planner *)
(* (updata_determine_strategy.py) as state machines.                      *)
(*                                                                         *)
(* Executor: one process at a time runs main() over a plan file.  Its     *)
(* handlers are one action each, except dnf-install, whose two phases are *)
(* split at every external command, because the process can be killed    *)
(* between any two of them and the files it leaves behind decide what the *)
(* next invocation does.  The executor is modelled as deployed (none of   *)
(* the --test-* options, so test_mode is FALSE and every command runs).   *)
(*                                                                         *)
(* Text is a sequence of one-character strings wherever the code looks    *)
(* inside it (startswith, lstrip, format), so that these are computed.    *)
(***************************************************************************)
EXTENDS Integers, Sequences, FiniteSets, TLC

\* -------------------------------------------------------------- bounds
\* How often the environment may kill a running executor.
MaxKills == 1

\* ---------------------------------------------------------------- text
None == [some |-> FALSE]
Some(x) == [some |-> TRUE, val |-> x]

StartsWith(s, prefix) ==
    /\ Len(s) >= Len(prefix)
    /\ SubSeq(s, 1, Len(prefix)) = prefix

RECURSIVE LStrip(_, _)
LStrip(s, ch) ==
    IF s # <<>> /\ Head(s) = ch THEN LStrip(Tail(s), ch) ELSE s

Range(seq) == {seq[i] : i \in DOMAIN seq}

\* ------------------------------------------------------------ packages
S_updata  == <<"u", "p", "d", "a", "t", "a">>
S_updataD == <<"u", "p", "d", "a", "t", "a", "-">>

Pkg(n, e, v) == [name |-> n, epoch |-> e, ver |-> v, arch |-> <<"n">>]

UpdataOld == Pkg(S_updata, "", <<"1">>)
UpdataNew == Pkg(S_updata, "", <<"2">>)
AppOld    == Pkg(<<"a", "p", "p">>, "", <<"1">>)
AppNew    == Pkg(<<"a", "p", "p">>, "1", <<"2">>)
OldPkg    == Pkg(<<"o", "l", "d">>, "", <<"1">>)

\* name-version.arch, as the manifest names a package (its NVRA) and as
\* offline_update rebuilds it from a line of "dnf list --installed".
PackageId(p) == p.name \o <<"-">> \o p.ver \o <<".">> \o p.arch
\* The base name of the downloaded file that tempfiles.json lists.
FileName(p) == PackageId(p) \o <<".", "r", "p", "m">>

\* The packages the repository server can deliver.
Repo == {UpdataOld, UpdataNew, AppNew}

\* --------------------------------------------------------------- plans
\* A step of the plan file: a JSON object whose keys are all optional for
\* the parser; an absent key is None (step.get(key) in the code).
Step(a) ==
    [has_action |-> TRUE, action |-> a, updata_update |-> None,
     release_line |-> None, base_url |-> None,
     enable_flavor |-> None, disable_flavor |-> None,
     requested_version |-> <<>>, requested_line |-> "", requested_flavor |-> "",
     has_recovery_data_url |-> FALSE, keep_user_data |-> FALSE,
     installer_url |-> ""]

NopStep == Step("nop")
ManageReposStep ==
    [Step("manage-repos") EXCEPT !.release_line = Some(<<"V3">>),
                                 !.base_url = Some(<<"http://u">>),
                                 !.enable_flavor = Some(<<"beta">>)]
DnfInstallStep(mode) ==
    [Step("dnf-install") EXCEPT !.updata_update = mode,
                                !.requested_version = <<"3">>]
DistroSyncStep == Step("dnf-distro-sync")
RebootSystemStep == Step("reboot-system")
RunInstallerStep ==
    [Step("run-installer") EXCEPT !.requested_version = <<"3">>]
RecoverSystemStep(url, ver) ==
    [Step("recover-system") EXCEPT !.requested_version = ver,
                                   !.requested_line = "V3",
                                   !.requested_flavor = "stable",
                                   !.has_recovery_data_url = url,
                                   !.keep_user_data = TRUE]
UnknownStep == Step("frobnicate")
NoActionStep == [Step("") EXCEPT !.has_action = FALSE]

UpdateModes == {None, Some("deferred_downgrade"), Some("deferred_removal")}

PackagePlans ==
    {<<NopStep, ManageReposStep, DnfInstallStep(m), RebootSystemStep>> :
        m \in UpdateModes}
RecoveryPlans ==
    {<<NopStep, RunInstallerStep, RecoverSystemStep(u, v), NopStep>> :
        u \in BOOLEAN, v \in {<<"3">>, <<"V", "3">>}}
\* The third plan has manage-repos steps with enable_flavor, with
\* disable_flavor, with none of them, with both and with an empty
\* disable_flavor.  The last plan has the steps that look at
\* in_offline_mode on both sides of its dnf-install step.
OtherPlans ==
    {<<NopStep, UnknownStep, ManageReposStep, DistroSyncStep, RebootSystemStep,
       NopStep>>,
     <<NopStep, NoActionStep, RebootSystemStep>>,
     <<ManageReposStep,
       [ManageReposStep EXCEPT !.release_line = Some(<<"V4">>),
                               !.enable_flavor = None,
                               !.disable_flavor = Some(<<"beta">>)],
       [ManageReposStep EXCEPT !.enable_flavor = None],
       [ManageReposStep EXCEPT !.enable_flavor = Some(<<"x">>),
                               !.disable_flavor = Some(<<"beta">>)],
       [ManageReposStep EXCEPT !.enable_flavor = None,
                               !.disable_flavor = Some(<<>>)],
       RebootSystemStep>>,
     <<ManageReposStep, RunInstallerStep, DistroSyncStep,
       DnfInstallStep(None),
       [ManageReposStep EXCEPT !.release_line = Some(<<"V4">>)],
       RunInstallerStep, DistroSyncStep, RebootSystemStep>>}
Plans == PackagePlans \cup RecoveryPlans \cup OtherPlans

\* The version manifests the server may hold behind version_file_url, as
\* the lines of the text (the NVRA, the name and the version of a package,
\* separated by blanks; the last line is empty), and the package sets a
\* device may start with.
ManifestLine(p) == PackageId(p) \o <<" ">> \o p.name \o <<" ">> \o p.ver
Manifests ==
    {<<ManifestLine(AppNew), ManifestLine(UpdataOld), <<>>>>,
     <<<<" ">> \o ManifestLine(AppNew), <<>>>>,
     <<<<>>>>,
     <<ManifestLine(AppNew), <<" ">>, <<>>>>}
InstalledSets == {{AppOld, UpdataNew, OldPkg}}

\* What an HTTP request can end with: a 2xx answer, raise_for_status()
\* raising HTTPError, or requests raising ConnectionError.
HttpOutcomes == {"ok", "HTTPError", "ConnectionError"}
\* What a subprocess can end with: exit status 0 or not (run_command raises
\* RuntimeError).
CmdOutcomes == {"ok", "RuntimeError"}

\* The answers recovery_data/system_info and recovery_data/data_info give.
States == {"valid", "invalid"}
DataInfos ==
    [state : States,
     number : {<<"3">>, <<"V", "3">>, <<"V", "V", "3">>, <<"4">>},
     release_line : {"V3", "V2"},
     flavor : {"stable", "beta"}]

AnyDataInfo == CHOOSE info \in DataInfos : TRUE

\* --------------------------------------------------------------- state
VARIABLES
    args,          \* [plan, avoid_reboot, reboot_only]: the command line
    server,        \* the manifest behind version_file_url
    proc,          \* "off" | "run" | "exit" | "halt"
    exit_code,     \* the executor's exit status (-1: none yet)
    step_no,       \* index of the step the loop of main() is at
    pc,            \* position inside the step
    symlink,       \* /system-update exists
    tempfiles,     \* dnf_work_dir/tempfiles.json
    manifest_txt,  \* updata_work_dir/manifest.txt
    dnf_vars,      \* etc/dnf/vars: name -> file content
    installed,     \* the installed packages
    cache,         \* the downloaded packages in dnf's cache
    loc,           \* the local variables of the dnf-install handlers
    cmds,          \* the commands and requests issued by this invocation
    trace,         \* the steps the loop of main() has visited, in order
    raised,        \* the exception that ended this invocation, and where
    reboot,        \* "no" | "system" | "recovery": a reboot is under way
    reboot_failed, \* a reboot request of this invocation was refused
    runs,          \* per invocation: why started, which dnf-install phase
    kills,         \* how often the executor was killed
    planner,       \* the planner: its options, position, locals and plan
    lib            \* a call into the library updata on its own

vars == <<args, server, proc, exit_code, step_no, pc, symlink, tempfiles,
          manifest_txt, dnf_vars, installed, cache, loc, cmds, trace, raised,
          reboot, reboot_failed, runs, kills, planner, lib>>

files == <<symlink, tempfiles, manifest_txt, dnf_vars, installed, cache>>

DnfVarNames == {"strbo_release_line", "strbo_update_baseurl",
                "strbo_base_enabled", "strbo_flavor", "strbo_flavor_enabled"}

LocInit ==
    [dl |-> <<>>, r |-> None, mode |-> None,
     r_deferred_update |-> <<>>, r_deferred_residual |-> {},
     residual |-> {}, m |-> {}, manifest |-> FALSE]

NoExc == [exc |-> "none", at |-> "none"]

\* The planner before it is started.  read and compat_json keep what the
\* planner read from the dnf variable file and from the server.
PlannerOff ==
    [pc |-> "off", opts |-> None, etc |-> None, path |-> "none",
     main_version |-> None, target_release_line |-> "",
     target_version |-> None, target_flavor |-> "",
     recovery_version |-> None, ensured |-> None, dv |-> None,
     read |-> None, compat_json |-> None, recovery_etc |-> None,
     test |-> None, user |-> "root",
     strategy |-> <<>>, out |-> None, exit |-> -1]

\* No call into the library on its own.
LibOff == [pc |-> "off"]

Init ==
    /\ planner = PlannerOff
    /\ lib = LibOff
    /\ args \in [plan : Plans, avoid_reboot : BOOLEAN, reboot_only : BOOLEAN]
    /\ server \in Manifests
    /\ proc = "off"
    /\ exit_code = -1
    /\ step_no = 0
    /\ pc = "off"
    /\ symlink = FALSE
    /\ tempfiles = None
    /\ manifest_txt = None
    /\ dnf_vars = [n \in DnfVarNames |-> None]
    /\ installed \in InstalledSets
    /\ cache = {}
    /\ loc = LocInit
    /\ cmds = <<>>
    /\ trace = <<>>
    /\ raised = NoExc
    /\ reboot = "no"
    /\ reboot_failed = FALSE
    /\ runs = <<>>
    /\ kills = 0

\* ------------------------------------------------------------ executor
CurStep == args.plan[step_no]

KnownActions == {"manage-repos", "dnf-install", "dnf-distro-sync",
                 "reboot-system", "run-installer", "recover-system", "nop"}

\* The loop of main() is about to run the handler of a step with action a.
AtStep(a) ==
    /\ proc = "run"
    /\ pc = "step"
    /\ step_no <= Len(args.plan)
    /\ CurStep.action = a

Cmd(what, arg) == [what |-> what, arg |-> arg, step |-> step_no]

\* A Data that never finds /system-update.
in_offline_mode_Never == FALSE
in_offline_mode == symlink

\* A main() with the exit statuses of its two except clauses exchanged.
ExitCodeOf_Exchanged(exc) ==
    CASE exc = "RebootFailedError" -> 20
      [] exc = "ConnectionError" -> 10
      [] OTHER -> 1

\* The exit status main() ends with when a handler raised exc: 10 and 20 by
\* its except clauses, 1 for an exception nothing catches (the interpreter).
ExitCodeOf(exc) ==
    CASE exc = "RebootFailedError" -> 10
      [] exc = "ConnectionError" -> 20
      [] OTHER -> 1

\* A loop of main() that leaves out the step after one that returned.
Dispatch_LeavesOut(exc) ==
    /\ raised' = IF exc = "none" THEN raised ELSE [exc |-> exc, at |-> "step"]
    /\ IF exc = "none"
       THEN /\ proc' = "run"
            /\ pc' = "step"
            /\ step_no' = IF step_no < Len(args.plan) THEN step_no + 2
                           ELSE step_no + 1
            /\ exit_code' = exit_code
       ELSE IF exc = "ExitForOfflineUpdate"
       THEN /\ proc' = "run"
            /\ pc' = "offline_exit"
            /\ UNCHANGED <<step_no, exit_code>>
       ELSE /\ proc' = "exit"
            /\ pc' = "exit"
            /\ exit_code' = ExitCodeOf(exc)
            /\ UNCHANGED step_no

\* main(): what follows the handler of the current step, which raised exc
\* ("none": it returned).
Dispatch(exc) ==
    /\ raised' = IF exc = "none" THEN raised ELSE [exc |-> exc, at |-> "step"]
    /\ IF exc = "none"
       THEN /\ proc' = "run"
            /\ pc' = "step"
            /\ step_no' = step_no + 1
            /\ exit_code' = exit_code
       ELSE IF exc = "ExitForOfflineUpdate"
       THEN /\ proc' = "run"
            /\ pc' = "offline_exit"
            /\ UNCHANGED <<step_no, exit_code>>
       ELSE /\ proc' = "exit"
            /\ pc' = "exit"
            /\ exit_code' = ExitCodeOf(exc)
            /\ UNCHANGED step_no

Visit(how) == trace' = Append(trace, [idx |-> step_no, how |-> how])

\* Requests and commands issued one after the other until one fails: the
\* exception raised and what was issued.  A request whose endpoint
\* get_rest_api_endpoint did not find (requests.post(None)) is not sent.
RECURSIVE RunCalls(_)
RunCalls(calls) ==
    IF calls = <<>> THEN [exc |-> "none", log |-> <<>>]
    ELSE LET c == Head(calls) IN
         IF c.outcome = "ok"
         THEN LET rest == RunCalls(Tail(calls))
              IN  [exc |-> rest.exc, log |-> <<c.cmd>> \o rest.log]
         ELSE [exc |-> c.outcome,
               log |-> IF c.outcome = "MissingSchema" THEN <<>>
                       ELSE <<[c.cmd EXCEPT !.arg = <<>>]>>]

Call(what, arg, outcome) == [cmd |-> Cmd(what, arg), outcome |-> outcome]

RestOutcomes == HttpOutcomes \cup {"MissingSchema"}
\* The outcomes to draw for a request that follows one with outcome prev: a
\* request is only made when the one before it succeeded.
Following(prev) == IF prev = "ok" THEN RestOutcomes ELSE {"ok"}

Invoke ==
    /\ proc = "off"
    /\ runs' = Append(runs, [why |-> pc, phase |-> "none", link |-> "n/a",
                          finished |-> FALSE])
    /\ cmds' = <<>>
    /\ trace' = <<>>
    /\ loc' = LocInit
    /\ reboot_failed' = FALSE
    /\ IF \E i \in DOMAIN args.plan : ~args.plan[i].has_action
       THEN /\ proc' = "exit"
            /\ pc' = "exit"
            /\ exit_code' = 1
            /\ step_no' = 0
            /\ raised' = [exc |-> "RuntimeError", at |-> "main"]
       ELSE /\ proc' = "run"
            /\ pc' = "step"
            /\ exit_code' = -1
            /\ step_no' = 1
            /\ raised' = NoExc
    /\ UNCHANGED <<lib, planner, args, server, files, reboot, kills>>

MainReturn ==
    /\ proc = "run"
    /\ pc = "step"
    /\ step_no = Len(args.plan) + 1
    /\ proc' = "exit"
    /\ pc' = "returned"
    /\ exit_code' = 0
    /\ UNCHANGED <<lib, planner, args, server, step_no, files, loc, cmds, trace, raised,
                   reboot, reboot_failed, runs, kills>>

StepUnknown ==
    /\ proc = "run"
    /\ pc = "step"
    /\ step_no <= Len(args.plan)
    /\ CurStep.action \notin KnownActions
    /\ Visit("skip")
    /\ step_no' = step_no + 1
    /\ UNCHANGED <<lib, planner, args, server, proc, exit_code, pc, files, loc, cmds, raised,
                   reboot, reboot_failed, runs, kills>>

do_nothing ==
    /\ AtStep("nop")
    /\ Visit("run")
    /\ Dispatch("none")
    /\ UNCHANGED <<lib, planner, args, server, files, loc, cmds, reboot, reboot_failed,
                   runs, kills>>

\* DNFVariables.write_var: nothing is written for a value of None; the file
\* gets the value and the line end that print() adds.
write_var(vs, name, value) ==
    IF ~value.some THEN vs
    ELSE [vs EXCEPT ![name] = Some(value.val \o <<"\n">>)]

\* DNFVariables.read_var: None for a file that is not there, else all that
\* the file holds.
read_var(vs, var_name) == vs[var_name]

ManageReposWrites_DisableFirst(step, vs) ==
    LET v1 == write_var(vs, "strbo_release_line", step.release_line)
        v2 == write_var(v1, "strbo_update_baseurl", step.base_url)
        v3 == write_var(v2, "strbo_base_enabled", Some(<<"1">>))
    IN  IF step.disable_flavor.some /\ step.disable_flavor.val # <<>>
        THEN write_var(v3, "strbo_flavor_enabled", Some(<<"0">>))
        ELSE IF step.enable_flavor.some
        THEN write_var(write_var(v3, "strbo_flavor", step.enable_flavor),
                       "strbo_flavor_enabled", Some(<<"1">>))
        ELSE v3

ManageReposWrites(step, vs) ==
    LET v1 == write_var(vs, "strbo_release_line", step.release_line)
        v2 == write_var(v1, "strbo_update_baseurl", step.base_url)
        v3 == write_var(v2, "strbo_base_enabled", Some(<<"1">>))
    IN  IF step.enable_flavor.some
        THEN write_var(write_var(v3, "strbo_flavor", step.enable_flavor),
                       "strbo_flavor_enabled", Some(<<"1">>))
        ELSE IF step.disable_flavor.some /\ step.disable_flavor.val # <<>>
        THEN write_var(v3, "strbo_flavor_enabled", Some(<<"0">>))
        ELSE v3

do_manage_repos ==
    /\ AtStep("manage-repos")
    /\ Visit("run")
    /\ dnf_vars' = IF args.reboot_only \/ in_offline_mode THEN dnf_vars
                   ELSE ManageReposWrites(CurStep, dnf_vars)
    /\ Dispatch("none")
    /\ UNCHANGED <<lib, planner, args, server, symlink, tempfiles, manifest_txt, installed,
                   cache, loc, cmds, reboot, reboot_failed, runs, kills>>

do_dnf_distro_sync ==
    /\ AtStep("dnf-distro-sync")
    /\ Visit("run")
    /\ \E o \in CmdOutcomes :
         IF args.reboot_only \/ in_offline_mode
         THEN /\ cmds' = cmds
              /\ Dispatch("none")
         ELSE /\ cmds' = Append(cmds, Cmd("dnf distro-sync", <<>>))
              /\ Dispatch(IF o = "ok" THEN "none" ELSE o)
    /\ UNCHANGED <<lib, planner, args, server, files, loc, reboot, reboot_failed, runs, kills>>

\* A do_reboot_system that does not look at --avoid-reboot.
RebootSystem_Always(o) ==
    [exc |-> IF o = "ok" THEN "none" ELSE "RebootFailedError",
     log |-> <<Cmd("systemctl isolate reboot.target", <<>>)>>,
     reboot |-> (o = "ok"), failed |-> (o # "ok")]

\* do_reboot_system with the outcome o of "systemctl isolate reboot.target".
RebootSystem(o) ==
    IF args.avoid_reboot
    THEN [exc |-> "none", log |-> <<>>, reboot |-> FALSE, failed |-> FALSE]
    ELSE [exc |-> IF o = "ok" THEN "none" ELSE "RebootFailedError",
          log |-> <<Cmd("systemctl isolate reboot.target", <<>>)>>,
          reboot |-> (o = "ok"), failed |-> (o # "ok")]

do_reboot_system ==
    /\ AtStep("reboot-system")
    /\ Visit("run")
    /\ \E o \in CmdOutcomes :
         LET res == RebootSystem(o) IN
         /\ cmds' = cmds \o res.log
         /\ reboot' = IF res.reboot THEN "system" ELSE reboot
         /\ reboot_failed' = (reboot_failed \/ res.failed)
         /\ Dispatch(res.exc)
    /\ UNCHANGED <<lib, planner, args, server, files, loc, runs, kills>>

\* main(), except ExitForOfflineUpdate: do_reboot_system(step, data), then
\* sys.exit(0).  The call stands in an except clause, outside the try: what
\* it raises is caught by nothing.
MainOfflineExit ==
    /\ proc = "run"
    /\ pc = "offline_exit"
    /\ \E o \in CmdOutcomes :
         LET res == RebootSystem(o) IN
         /\ cmds' = cmds \o res.log
         /\ reboot' = IF res.reboot THEN "system" ELSE reboot
         /\ reboot_failed' = (reboot_failed \/ res.failed)
         /\ proc' = "exit"
         /\ pc' = "exit"
         /\ IF res.exc = "none"
            THEN /\ exit_code' = 0
                 /\ raised' = raised
            ELSE /\ exit_code' = 1
                 /\ raised' = [exc |-> res.exc, at |-> "except ExitForOfflineUpdate"]
    /\ UNCHANGED <<lib, planner, args, server, step_no, files, loc, trace, runs, kills>>

\* A do_run_installer that does not look at the reported state.
RunInstaller_AnyState(o1, o2, o3, state) ==
    IF args.reboot_only \/ in_offline_mode
    THEN [exc |-> "none", log |-> <<>>]
    ELSE RunCalls(<<Call("POST replace_system", <<>>, o1),
                    Call("POST verify_system", <<>>, o2),
                    Call("GET system_info", <<state>>, o3)>>)

\* do_run_installer: the three requests with outcomes o1..o3 and the state
\* that recovery_data/system_info reports.
RunInstaller(o1, o2, o3, state) ==
    IF args.reboot_only \/ in_offline_mode
    THEN [exc |-> "none", log |-> <<>>]
    ELSE LET res == RunCalls(<<Call("POST replace_system", <<>>, o1),
                               Call("POST verify_system", <<>>, o2),
                               Call("GET system_info", <<state>>, o3)>>)
         IN  IF res.exc = "none" /\ state # "valid"
             THEN [exc |-> "RuntimeError", log |-> res.log]
             ELSE res

do_run_installer ==
    /\ AtStep("run-installer")
    /\ Visit("run")
    /\ \E o1 \in RestOutcomes : \E o2 \in Following(o1) :
       \E o3 \in Following(o2) :
       \E state \in IF o3 = "ok" THEN States ELSE {"valid"} :
         LET res == RunInstaller(o1, o2, o3, state) IN
         /\ cmds' = cmds \o res.log
         /\ Dispatch(res.exc)
    /\ UNCHANGED <<lib, planner, args, server, files, loc, reboot, reboot_failed, runs, kills>>

\* A test of the answer that leaves out the flavor.
DataInfoAccepted_NoFlavor(step, info) ==
    /\ info.state = "valid"
    /\ LStrip(info.number, "V") = LStrip(step.requested_version, "V")
    /\ info.release_line = step.requested_line

\* The test of ensure_recovery_data on the answer of recovery_data/data_info.
DataInfoAccepted(step, info) ==
    /\ info.state = "valid"
    /\ LStrip(info.number, "V") = LStrip(step.requested_version, "V")
    /\ info.release_line = step.requested_line
    /\ info.flavor = step.requested_flavor

ensure_recovery_data(step, o1, o2, o3, info) ==
    IF args.reboot_only
    THEN [exc |-> "none", log |-> <<>>]
    ELSE LET res ==
               RunCalls((IF step.has_recovery_data_url
                         THEN <<Call("POST replace_data", <<>>, o1)>>
                         ELSE <<>>)
                        \o <<Call("POST verify_data", <<>>, o2),
                             Call("GET data_info", <<info>>, o3)>>)
         IN  IF res.exc = "none" /\ ~DataInfoAccepted(step, info)
             THEN [exc |-> "RuntimeError", log |-> res.log]
             ELSE res

reboot_into_recovery_system(o4) ==
    IF args.avoid_reboot
    THEN [exc |-> "none", log |-> <<>>]
    ELSE RunCalls(<<Call("POST reboot_system", <<>>, o4)>>)

\* do_recover_system: an HTTPError of the reboot request, and only of it,
\* becomes RebootFailedError.
RecoverSystem(step, o1, o2, o3, info, o4) ==
    LET data == ensure_recovery_data(step, o1, o2, o3, info)
        boot == reboot_into_recovery_system(o4)
    IN  IF data.exc # "none"
        THEN [exc |-> data.exc, log |-> data.log, reboot |-> FALSE,
              failed |-> FALSE]
        ELSE [exc |-> IF boot.exc = "HTTPError" THEN "RebootFailedError"
                      ELSE boot.exc,
              log |-> data.log \o boot.log,
              reboot |-> (boot.exc = "none" /\ boot.log # <<>>),
              failed |-> (boot.exc = "HTTPError")]

do_recover_system ==
    /\ AtStep("recover-system")
    /\ Visit("run")
    /\ \E o1 \in RestOutcomes : \E o2 \in Following(o1) :
       \E o3 \in Following(o2) :
       \E info \in IF o3 = "ok" THEN DataInfos ELSE {AnyDataInfo} :
       \E o4 \in Following(o3) :
         LET res == RecoverSystem(CurStep, o1, o2, o3, info, o4) IN
         /\ cmds' = cmds \o res.log
         /\ reboot' = IF res.reboot THEN "recovery" ELSE reboot
         /\ reboot_failed' = (reboot_failed \/ res.failed)
         /\ Dispatch(res.exc)
    /\ UNCHANGED <<lib, planner, args, server, files, loc, runs, kills>>

\* ------------------------------------------------- dnf-install, phases
\* A do_dnf_install with the two phases exchanged.
PhaseOf_Exchanged(link) == IF link THEN "download" ELSE "apply"

\* do_dnf_install: the phase for a symlink that exists (link) or not.
PhaseOf(link) == IF link THEN "apply" ELSE "download"

\* Inside a handler: go on at position next, or leave the handler with exc.
Goto(next) ==
    /\ pc' = next
    /\ UNCHANGED <<proc, exit_code, step_no, raised>>

Then(o, next) == IF o = "ok" THEN Goto(next) ELSE Dispatch(o)

At(pos) == proc = "run" /\ pc = pos

\* do_dnf_install up to the call of a phase: nothing with --reboot-only.
EnteredPhase(link) == IF args.reboot_only THEN "none" ELSE PhaseOf(link)

do_dnf_install ==
    /\ AtStep("dnf-install")
    /\ Visit("run")
    /\ runs' = [runs EXCEPT
                  ![Len(runs)].phase = EnteredPhase(in_offline_mode),
                  ![Len(runs)].link = IF symlink THEN "present" ELSE "absent"]
    /\ loc' = LocInit
    /\ CASE EnteredPhase(in_offline_mode) = "none" -> Dispatch("none")
         [] EnteredPhase(in_offline_mode) = "download" -> Goto("dl_clean")
         [] EnteredPhase(in_offline_mode) = "apply" -> Goto("ou_begin")
    /\ UNCHANGED <<lib, planner, args, server, files, cmds, reboot, reboot_failed, kills>>

\* download_all_packages, command by command.
DlClean ==
    /\ At("dl_clean")
    /\ \E o \in CmdOutcomes :
         /\ cmds' = Append(cmds, Cmd("dnf clean packages", <<>>))
         /\ cache' = IF o = "ok" THEN {} ELSE cache
         /\ Then(o, "dl_rm_tempfiles")
    /\ UNCHANGED <<lib, planner, args, server, symlink, tempfiles, manifest_txt, dnf_vars,
                   installed, loc, trace, reboot, reboot_failed, runs, kills>>

DlRmTempfiles ==
    /\ At("dl_rm_tempfiles")
    /\ \E o \in CmdOutcomes :
         /\ cmds' = Append(cmds, Cmd("rm -f tempfiles.json", <<>>))
         /\ tempfiles' = IF o = "ok" THEN None ELSE tempfiles
         /\ Then(o, "dl_manifest")
    /\ UNCHANGED <<lib, planner, args, server, symlink, manifest_txt, dnf_vars, installed,
                   cache, loc, trace, reboot, reboot_failed, runs, kills>>

\* line.split(None, 1)[0]: the characters of the line after its leading
\* blanks up to the next blank; a line of blanks only has none (IndexError).
RECURSIVE UpToBlank(_)
UpToBlank(s) ==
    IF s = <<>> \/ Head(s) = " " THEN <<>>
    ELSE <<Head(s)>> \o UpToBlank(Tail(s))
FirstToken_WholeLine(line) == line
FirstToken(line) == UpToBlank(LStrip(line, " "))
IsLine(line) == line # <<>>
\* [line.split(None, 1)[0] for line in r.text.split('\n') if line] for the
\* lines of the answer
ManifestTokens(lines) ==
    LET kept == SelectSeq(lines, IsLine) IN
    [i \in DOMAIN kept |-> FirstToken(kept[i])]
ManifestOutcome(lines, o) ==
    IF o = "ok" /\ \E i \in DOMAIN lines :
                     IsLine(lines[i]) /\ LStrip(lines[i], " ") = <<>>
    THEN "IndexError" ELSE o

DlManifest ==
    /\ At("dl_manifest")
    /\ \E answer \in HttpOutcomes :
         LET o == ManifestOutcome(server, answer) IN
         /\ cmds' = Append(cmds, Cmd("GET version_file_url", <<>>))
         /\ loc' = IF o = "ok" THEN [loc EXCEPT !.dl = ManifestTokens(server)]
                   ELSE loc
         /\ manifest_txt' = IF o = "ok" THEN Some(ManifestTokens(server))
                            ELSE manifest_txt
         /\ Then(o, "dl_download")
    /\ UNCHANGED <<lib, planner, args, server, symlink, tempfiles, dnf_vars, installed,
                   cache, trace, reboot, reboot_failed, runs, kills>>

\* The packages "dnf install --downloadonly" fetches for the names in ids:
\* those of the repository that are not installed; in the order of ids.
RECURSIVE Fetched(_, _)
Fetched(ids, have) ==
    IF ids = <<>> THEN <<>>
    ELSE LET ps == {p \in Repo \ have : PackageId(p) = Head(ids)}
         IN  (IF ps = {} THEN <<>> ELSE <<CHOOSE p \in ps : TRUE>>)
             \o Fetched(Tail(ids), have)

DlDownload ==
    /\ At("dl_download")
    /\ IF loc.dl = <<>>
       THEN /\ Goto("dl_symlink")
            /\ UNCHANGED <<cmds, cache, tempfiles>>
       ELSE \E o \in CmdOutcomes :
              LET got == Fetched(loc.dl, installed) IN
              /\ cmds' = Append(cmds, Cmd("dnf install --downloadonly", loc.dl))
              /\ cache' = IF o = "ok" THEN cache \cup Range(got) ELSE cache
              /\ IF o = "ok"
                 THEN tempfiles' \in (IF got = <<>> THEN {None, Some(<<>>)}
                                      ELSE {Some(got)})
                 ELSE tempfiles' = tempfiles
              /\ Then(o, "dl_symlink")
    /\ UNCHANGED <<lib, planner, args, server, symlink, manifest_txt, dnf_vars, installed,
                   loc, trace, reboot, reboot_failed, runs, kills>>

\* "ln -s dnf_work_dir /system-update", then do_dnf_install raises
\* ExitForOfflineUpdate.
DlSymlink ==
    /\ At("dl_symlink")
    /\ \E o \in CmdOutcomes :
         /\ cmds' = Append(cmds, Cmd("ln -s dnf_work_dir /system-update", <<>>))
         /\ symlink' = IF o = "ok" THEN TRUE ELSE symlink
         /\ Dispatch(IF o = "ok" THEN "ExitForOfflineUpdate" ELSE o)
    /\ UNCHANGED <<lib, planner, args, server, tempfiles, manifest_txt, dnf_vars, installed,
                   cache, loc, trace, reboot, reboot_failed, runs, kills>>

\* offline_update, command by command.
UpdateMode(step) ==
    IF step.updata_update.some THEN step.updata_update.val ELSE "default"

with_deferred_updata(step) ==
    UpdateMode(step) \in {"deferred_downgrade", "deferred_removal"}

IsDeferredFile(p) == StartsWith(FileName(p), S_updataD)
\* A partition that defers nothing.
IsMainFile_All(p) == TRUE
IsMainFile(p) == ~IsDeferredFile(p)

\* A loop that installs a package of the repository when it got no list.
Partition_UnreadableInstalls(step, r) ==
    IF ~r.some
    THEN [r |-> Some(<<AppNew>>), r_deferred_update |-> <<>>,
          mode |-> UpdateMode(step)]
    ELSE IF with_deferred_updata(step) /\ r.val # <<>>
    THEN LET deferred == SelectSeq(r.val, IsDeferredFile) IN
         [r |-> Some(SelectSeq(r.val, IsMainFile)),
          r_deferred_update |-> deferred,
          mode |-> IF UpdateMode(step) = "deferred_removal" /\ deferred # <<>>
                   THEN "deferred_downgrade" ELSE UpdateMode(step)]
    ELSE [r |-> r, r_deferred_update |-> <<>>, mode |-> UpdateMode(step)]

\* A loop that keeps the planned update mode.
Partition_NoSwitch(step, r) ==
    IF with_deferred_updata(step) /\ r.some /\ r.val # <<>>
    THEN [r |-> Some(SelectSeq(r.val, IsMainFile)),
          r_deferred_update |-> SelectSeq(r.val, IsDeferredFile),
          mode |-> UpdateMode(step)]
    ELSE [r |-> r, r_deferred_update |-> <<>>, mode |-> UpdateMode(step)]

\* The loop over the downloaded list r: what stays in the main install,
\* what is deferred, and the update mode after it.
Partition(step, r) ==
    IF with_deferred_updata(step) /\ r.some /\ r.val # <<>>
    THEN LET deferred == SelectSeq(r.val, IsDeferredFile) IN
         [r |-> Some(SelectSeq(r.val, IsMainFile)),
          r_deferred_update |-> deferred,
          mode |-> IF UpdateMode(step) = "deferred_removal" /\ deferred # <<>>
                   THEN "deferred_downgrade" ELSE UpdateMode(step)]
    ELSE [r |-> r, r_deferred_update |-> <<>>, mode |-> UpdateMode(step)]

\* "dnf install" of package files: each replaces what is installed under
\* its name.  "dnf remove" of package ids.
DnfInstalled(have, pkgs) ==
    {p \in have : \A q \in Range(pkgs) : q.name # p.name} \cup Range(pkgs)
DnfRemoved(have, ids) == {p \in have : PackageId(p) \notin ids}

OuBegin ==
    /\ At("ou_begin")
    /\ \E o \in CmdOutcomes :
         /\ cmds' = Append(cmds, Cmd("rm /system-update", <<>>))
         /\ loc' = [loc EXCEPT !.r = tempfiles]
         /\ symlink' = IF o = "ok" THEN FALSE ELSE symlink
         /\ Then(o, "ou_install")
    /\ UNCHANGED <<lib, planner, args, server, tempfiles, manifest_txt, dnf_vars, installed,
                   cache, trace, reboot, reboot_failed, runs, kills>>

OuInstall ==
    /\ At("ou_install")
    /\ LET part == Partition(CurStep, loc.r) IN
       /\ loc' = [loc EXCEPT !.r = part.r, !.mode = Some(part.mode),
                             !.r_deferred_update = part.r_deferred_update]
       /\ IF part.r.some /\ part.r.val # <<>>
          THEN \E o \in CmdOutcomes :
                 /\ cmds' = Append(cmds, Cmd("dnf install", part.r.val))
                 /\ installed' = IF o = "ok"
                                 THEN DnfInstalled(installed, part.r.val)
                                 ELSE installed
                 /\ Then(o, "ou_ldconfig_install")
          ELSE /\ Goto("ou_ldconfig_install")
               /\ UNCHANGED <<cmds, installed>>
    /\ UNCHANGED <<lib, planner, args, server, symlink, tempfiles, manifest_txt, dnf_vars,
                   cache, trace, reboot, reboot_failed, runs, kills>>

OuLdconfigInstall ==
    /\ At("ou_ldconfig_install")
    /\ \E o \in CmdOutcomes :
         /\ cmds' = Append(cmds, Cmd("ldconfig", <<>>))
         /\ Then(o, "ou_list")
    /\ UNCHANGED <<lib, planner, args, server, files, loc, trace, reboot, reboot_failed,
                   runs, kills>>

\* The loop over the lines of "dnf list --installed" with the manifest set m.
HeldBack(step, mode, p) ==
    with_deferred_updata(step) /\ StartsWith(p.name, S_updata)
\* A loop that takes an empty manifest set for a manifest that lists nothing.
Residual_EmptyListsNothing(step, mode, m, have) ==
    {PackageId(p) : p \in {q \in have : /\ ~HeldBack(step, mode, q)
                                         /\ PackageId(q) \notin m}}
Residual_WithUpdata(step, mode, m, have) ==
    {PackageId(p) : p \in {q \in have : m # {} /\ PackageId(q) \notin m}}
Residual(step, mode, m, have) ==
    {PackageId(p) : p \in {q \in have : /\ ~HeldBack(step, mode, q)
                                         /\ m # {}
                                         /\ PackageId(q) \notin m}}
DeferredResidual(step, mode, have) ==
    {PackageId(p) : p \in {q \in have : /\ HeldBack(step, mode, q)
                                         /\ mode = "deferred_removal"}}

OuList ==
    /\ At("ou_list")
    /\ \E o \in CmdOutcomes :
         LET m == IF manifest_txt.some THEN Range(manifest_txt.val) ELSE {} IN
         /\ cmds' = Append(cmds, Cmd("dnf list --installed", <<>>))
         /\ loc' = IF o = "ok"
                   THEN [loc EXCEPT
                           !.m = m, !.manifest = manifest_txt.some,
                           !.residual =
                               Residual(CurStep, loc.mode.val, m, installed),
                           !.r_deferred_residual =
                               DeferredResidual(CurStep, loc.mode.val, installed)]
                   ELSE [loc EXCEPT !.m = m, !.manifest = manifest_txt.some]
         /\ Then(o, "ou_remove")
    /\ UNCHANGED <<lib, planner, args, server, files, trace, reboot, reboot_failed, runs,
                   kills>>

OuRemove ==
    /\ At("ou_remove")
    /\ IF loc.residual # {}
       THEN \E o \in CmdOutcomes :
              /\ cmds' = Append(cmds, Cmd("dnf remove", loc.residual))
              /\ installed' = IF o = "ok"
                              THEN DnfRemoved(installed, loc.residual)
                              ELSE installed
              /\ Then(o, "ou_ldconfig_remove")
       ELSE /\ Goto("ou_ldconfig_remove")
            /\ UNCHANGED <<cmds, installed>>
    /\ UNCHANGED <<lib, planner, args, server, symlink, tempfiles, manifest_txt, dnf_vars,
                   cache, loc, trace, reboot, reboot_failed, runs, kills>>

OuLdconfigRemove ==
    /\ At("ou_ldconfig_remove")
    /\ \E o \in CmdOutcomes :
         /\ cmds' = Append(cmds, Cmd("ldconfig", <<>>))
         /\ Then(o, IF with_deferred_updata(CurStep)
                    THEN "ou_deferred_install" ELSE "ou_cleanup")
    /\ UNCHANGED <<lib, planner, args, server, files, loc, trace, reboot, reboot_failed,
                   runs, kills>>

OuDeferredInstall ==
    /\ At("ou_deferred_install")
    /\ IF loc.r_deferred_update # <<>>
       THEN \E o \in CmdOutcomes :
              /\ cmds' = Append(cmds, Cmd("dnf install deferred",
                                          loc.r_deferred_update))
              /\ installed' = IF o = "ok"
                              THEN DnfInstalled(installed, loc.r_deferred_update)
                              ELSE installed
              /\ Then(o, "ou_deferred_remove")
       ELSE /\ Goto("ou_deferred_remove")
            /\ UNCHANGED <<cmds, installed>>
    /\ UNCHANGED <<lib, planner, args, server, symlink, tempfiles, manifest_txt, dnf_vars,
                   cache, loc, trace, reboot, reboot_failed, runs, kills>>

OuDeferredRemove ==
    /\ At("ou_deferred_remove")
    /\ IF loc.r_deferred_residual # {}
       THEN \E o \in CmdOutcomes :
              /\ cmds' = Append(cmds, Cmd("dnf remove deferred",
                                          loc.r_deferred_residual))
              /\ installed' = IF o = "ok"
                              THEN DnfRemoved(installed, loc.r_deferred_residual)
                              ELSE installed
              /\ Then(o, "ou_cleanup")
       ELSE /\ Goto("ou_cleanup")
            /\ UNCHANGED <<cmds, installed>>
    /\ UNCHANGED <<lib, planner, args, server, symlink, tempfiles, manifest_txt, dnf_vars,
                   cache, loc, trace, reboot, reboot_failed, runs, kills>>

OuCleanup ==
    /\ At("ou_cleanup")
    /\ \E o \in CmdOutcomes :
         /\ cmds' = Append(cmds, Cmd("dnf clean packages", <<>>))
         /\ cache' = IF o = "ok" THEN {} ELSE cache
         /\ Then(o, "ou_unlink")
    /\ UNCHANGED <<lib, planner, args, server, symlink, tempfiles, manifest_txt, dnf_vars,
                   installed, loc, trace, reboot, reboot_failed, runs, kills>>

\* An offline_update that returns without the unlink of the manifest.
OuUnlink_KeepsManifest ==
    /\ At("ou_unlink")
    /\ runs' = [runs EXCEPT ![Len(runs)].finished = TRUE]
    /\ Dispatch("none")
    /\ UNCHANGED <<lib, planner, args, server, files, loc, cmds, trace, reboot,
                   reboot_failed, kills>>

\* manifest.unlink(missing_ok=True) if the manifest was read; offline_update
\* and do_dnf_install return.
OuUnlink ==
    /\ At("ou_unlink")
    /\ manifest_txt' = IF loc.manifest THEN None ELSE manifest_txt
    /\ runs' = [runs EXCEPT ![Len(runs)].finished = TRUE]
    /\ Dispatch("none")
    /\ UNCHANGED <<lib, planner, args, server, symlink, tempfiles, dnf_vars, installed,
                   cache, loc, cmds, trace, reboot, reboot_failed, kills>>

\* --------------------------------------------------------- environment
\* The executor is killed.
Kill ==
    /\ proc = "run"
    /\ kills < MaxKills
    /\ kills' = kills + 1
    /\ proc' = "off"
    /\ pc' = "killed"
    /\ step_no' = 0
    /\ loc' = LocInit
    /\ cmds' = <<>>
    /\ trace' = <<>>
    /\ raised' = NoExc
    /\ UNCHANGED <<lib, planner, args, server, exit_code, files, reboot, reboot_failed, runs>>

\* The machine goes down for a requested reboot, once the executor has ended
\* (a shutdown that takes a running executor with it is a Kill before it).
\* With /system-update in place it comes up for the offline update and the
\* executor is started on the plan; a killed executor is still to be
\* started again; otherwise, and after a boot into the recovery system, the
\* plan is over.
Reboot ==
    /\ reboot # "no"
    /\ proc \in {"exit", "off"}
    /\ proc' = IF reboot = "system" /\ (symlink \/ proc = "off")
               THEN "off" ELSE "halt"
    /\ pc' = IF reboot = "system" /\ ~symlink /\ proc = "off"
             THEN pc ELSE "booted"
    /\ reboot' = "no"
    /\ reboot_failed' = FALSE
    /\ exit_code' = -1
    /\ step_no' = 0
    /\ loc' = LocInit
    /\ cmds' = <<>>
    /\ trace' = <<>>
    /\ raised' = NoExc
    /\ UNCHANGED <<lib, planner, args, server, files, runs, kills>>

Next ==
    \/ Invoke
    \/ MainReturn
    \/ StepUnknown
    \/ do_nothing
    \/ do_manage_repos
    \/ do_dnf_distro_sync
    \/ do_reboot_system
    \/ MainOfflineExit
    \/ do_run_installer
    \/ do_recover_system
    \/ do_dnf_install
    \/ DlClean
    \/ DlRmTempfiles
    \/ DlManifest
    \/ DlDownload
    \/ DlSymlink
    \/ OuBegin
    \/ OuInstall
    \/ OuLdconfigInstall
    \/ OuList
    \/ OuRemove
    \/ OuLdconfigRemove
    \/ OuDeferredInstall
    \/ OuDeferredRemove
    \/ OuCleanup
    \/ OuUnlink
    \/ Kill
    \/ Reboot

Spec == Init /\ [][Next]_vars

\* The executor started for an offline update on work directories that the
\* options --updata-work-dir and --dnf-work-dir name: /system-update is in
\* place, manifest.txt and tempfiles.json are there or not.
StartManifests ==
    {None, Some(<<>>), Some(<<PackageId(AppNew), PackageId(UpdataOld)>>)}
StartTempfiles == {None, Some(<<AppNew>>)}
\* The plans with a dnf-install step: it ends the offline mode.
StartPlans ==
    {p \in Plans : \E i \in DOMAIN p : p[i].action = "dnf-install"}
OfflineStartInit ==
    /\ planner = PlannerOff
    /\ lib = LibOff
    /\ args \in [plan : StartPlans, avoid_reboot : BOOLEAN, reboot_only : {FALSE}]
    /\ server \in Manifests
    /\ proc = "off"
    /\ exit_code = -1
    /\ step_no = 0
    /\ pc = "booted"
    /\ symlink = TRUE
    /\ tempfiles \in StartTempfiles
    /\ manifest_txt \in StartManifests
    /\ dnf_vars = [n \in DnfVarNames |-> None]
    /\ installed \in InstalledSets
    /\ cache = {}
    /\ loc = LocInit
    /\ cmds = <<>>
    /\ trace = <<>>
    /\ raised = NoExc
    /\ reboot = "no"
    /\ reboot_failed = FALSE
    /\ runs = <<>>
    /\ kills = 0
\* The steps of the executor on these plans.
OfflineStartNext ==
    \/ Invoke
    \/ MainReturn
    \/ do_nothing
    \/ do_manage_repos
    \/ do_dnf_distro_sync
    \/ do_reboot_system
    \/ MainOfflineExit
    \/ do_run_installer
    \/ do_dnf_install
    \/ DlClean
    \/ DlRmTempfiles
    \/ DlManifest
    \/ DlDownload
    \/ DlSymlink
    \/ OuBegin
    \/ OuInstall
    \/ OuLdconfigInstall
    \/ OuList
    \/ OuRemove
    \/ OuLdconfigRemove
    \/ OuDeferredInstall
    \/ OuDeferredRemove
    \/ OuCleanup
    \/ OuUnlink
    \/ Kill
    \/ Reboot
OfflineStartSpec == OfflineStartInit /\ [][OfflineStartNext]_vars

\* A started executor runs on, a requested reboot happens, and the executor
\* is started again after a kill and after a boot into the offline update.
Progress ==
    \/ Invoke \/ MainReturn \/ StepUnknown \/ do_nothing \/ do_manage_repos
    \/ do_dnf_distro_sync \/ do_reboot_system \/ MainOfflineExit
    \/ do_run_installer \/ do_recover_system \/ do_dnf_install
    \/ DlClean \/ DlRmTempfiles \/ DlManifest \/ DlDownload \/ DlSymlink
    \/ OuBegin \/ OuInstall \/ OuLdconfigInstall \/ OuList \/ OuRemove
    \/ OuLdconfigRemove \/ OuDeferredInstall \/ OuDeferredRemove
    \/ OuCleanup \/ OuUnlink

LiveSpec == Spec /\ WF_vars(Progress) /\ WF_vars(Reboot)



\* ------------------------------------------------------ version numbers
\* A version component is a natural number, Star for "*", NoneV for None; a
\* hotfix is a lower-case letter, "" for None.  A call that can raise gives
\* Raise or Ok(value).
Star == -1
NoneV == -2
Raise == [ok |-> FALSE]
Ok(v) == [ok |-> TRUE, val |-> v]

Digits == <<"0", "1", "2", "3", "4", "5", "6", "7", "8", "9">>
ascii_lowercase ==
    <<"a", "b", "c", "d", "e", "f", "g", "h", "i", "j", "k", "l", "m", "n",
      "o", "p", "q", "r", "s", "t", "u", "v", "w", "x", "y", "z">>
IndexIn(seq, x) == CHOOSE i \in DOMAIN seq : seq[i] = x

\* str.split(sep)
RECURSIVE Split(_, _)
Split(s, sep) ==
    IF \A i \in DOMAIN s : s[i] # sep THEN <<s>>
    ELSE LET i == CHOOSE k \in DOMAIN s :
                      s[k] = sep /\ \A j \in 1..(k - 1) : s[j] # sep
         IN  <<SubSeq(s, 1, i - 1)>> \o Split(SubSeq(s, i + 1, Len(s)), sep)

\* int(component) for a text of decimal digits; it raises for any other.
RECURSIVE DigitsValue(_)
DigitsValue(s) ==
    IF s = <<>> THEN 0
    ELSE 10 * DigitsValue(SubSeq(s, 1, Len(s) - 1))
         + (IndexIn(Digits, s[Len(s)]) - 1)
IntOf(s) ==
    IF s = <<>> \/ \E i \in DOMAIN s : s[i] \notin Range(Digits)
    THEN Raise ELSE Ok(DigitsValue(s))

\* VersionNumber.__init__
VersionNumber(major, minor, patch, beta, hotfix) ==
    LET pat == (major = Star \/ minor = Star \/ patch = Star \/ beta = Star)
               /\ hotfix = ""
        bad(c, none_allowed) ==
            /\ ~(none_allowed /\ c = NoneV)
            /\ ~(pat /\ c = Star)
            /\ c < 0
    IN  IF \/ major = NoneV \/ minor = NoneV \/ patch = NoneV
           \/ beta # NoneV /\ hotfix # ""
           \/ bad(major, FALSE) \/ bad(minor, FALSE) \/ bad(patch, FALSE)
           \/ bad(beta, TRUE)
           \/ hotfix # "" /\ (hotfix \notin Range(ascii_lowercase) \/ pat)
        THEN Raise
        ELSE Ok([major |-> major, minor |-> minor, patch |-> patch,
                 beta |-> beta, hotfix |-> hotfix])

is_pattern(v) ==
    (v.major = Star \/ v.minor = Star \/ v.patch = Star \/ v.beta = Star)
    /\ v.hotfix = ""
pattern_specificity(v) ==
    Cardinality({f \in {"major", "minor", "patch", "beta"} : v[f] >= 0})

\* VersionNumber.__eq__ and __lt__ (a and b are version numbers, not None)
VersionEq(a, b) ==
    /\ a.major = b.major /\ a.minor = b.minor /\ a.patch = b.patch
    /\ a.hotfix = b.hotfix /\ a.beta = b.beta
is_smaller(a, b) == a >= 0 /\ b >= 0 /\ a < b
HotfixLess(a, b) == IndexIn(ascii_lowercase, a) < IndexIn(ascii_lowercase, b)
VersionLt_OrEqualBeta(a, b) ==
    IF a.major # b.major THEN is_smaller(a.major, b.major)
    ELSE IF a.minor # b.minor THEN is_smaller(a.minor, b.minor)
    ELSE IF a.patch # b.patch THEN is_smaller(a.patch, b.patch)
    ELSE IF a.beta # NoneV /\ b.beta # NoneV THEN ~is_smaller(b.beta, a.beta)
    ELSE IF a.beta = NoneV /\ b.beta = NoneV
    THEN b.hotfix # "" /\ (a.hotfix = "" \/ HotfixLess(a.hotfix, b.hotfix))
    ELSE b.beta # NoneV
VersionLt_BetaBeforeStable(a, b) ==
    IF a.major # b.major THEN is_smaller(a.major, b.major)
    ELSE IF a.minor # b.minor THEN is_smaller(a.minor, b.minor)
    ELSE IF a.patch # b.patch THEN is_smaller(a.patch, b.patch)
    ELSE IF a.beta # NoneV /\ b.beta # NoneV THEN is_smaller(a.beta, b.beta)
    ELSE IF a.beta = NoneV /\ b.beta = NoneV
    THEN b.hotfix # "" /\ (a.hotfix = "" \/ HotfixLess(a.hotfix, b.hotfix))
    ELSE a.beta # NoneV
VersionLt(a, b) ==
    IF a.major # b.major THEN is_smaller(a.major, b.major)
    ELSE IF a.minor # b.minor THEN is_smaller(a.minor, b.minor)
    ELSE IF a.patch # b.patch THEN is_smaller(a.patch, b.patch)
    ELSE IF a.beta # NoneV /\ b.beta # NoneV THEN is_smaller(a.beta, b.beta)
    ELSE IF a.beta = NoneV /\ b.beta = NoneV
    THEN IF a.hotfix = "" /\ b.hotfix # "" THEN TRUE
         ELSE IF a.hotfix # "" /\ b.hotfix = "" THEN FALSE
         ELSE IF a.hotfix # "" /\ b.hotfix # ""
         THEN HotfixLess(a.hotfix, b.hotfix)
         ELSE FALSE
    ELSE b.beta # NoneV

matches_AnyKind(self, version) ==
    IF ~is_pattern(self) THEN VersionEq(self, version)
    ELSE LET sp == pattern_specificity(self) IN
         /\ ~(sp >= 1 /\ self.major # version.major)
         /\ ~(sp >= 2 /\ self.minor # version.minor)
         /\ ~(sp >= 3 /\ (self.patch # version.patch
                          \/ self.hotfix # version.hotfix))
         /\ ~(sp >= 4 /\ self.beta # version.beta)

\* VersionNumber.matches for a version that is no pattern
matches(self, version) ==
    IF ~is_pattern(self) THEN VersionEq(self, version)
    ELSE LET sp == pattern_specificity(self) IN
         /\ (self.beta = NoneV) = (version.beta = NoneV)
         /\ ~(sp >= 1 /\ self.major # version.major)
         /\ ~(sp >= 2 /\ self.minor # version.minor)
         /\ ~(sp >= 3 /\ (self.patch # version.patch
                          \/ self.hotfix # version.hotfix))
         /\ ~(sp >= 4 /\ self.beta # version.beta)

\* parse_component of from_string: the component (None for a text that is
\* not there) and whether a "*" is still allowed to its left.
parse_component_Keep(component, is_pattern_allowed) ==
    IF ~component.some
    THEN [ok |-> TRUE, val |-> NoneV, allowed |-> is_pattern_allowed]
    ELSE IF is_pattern_allowed /\ component.val = <<"*">>
    THEN [ok |-> TRUE, val |-> Star, allowed |-> is_pattern_allowed]
    ELSE LET n == IntOf(component.val) IN
         IF n.ok THEN [ok |-> TRUE, val |-> n.val, allowed |-> is_pattern_allowed]
         ELSE [ok |-> FALSE, val |-> NoneV, allowed |-> FALSE]
parse_component(component, is_pattern_allowed) ==
    IF ~component.some
    THEN [ok |-> TRUE, val |-> NoneV, allowed |-> is_pattern_allowed]
    ELSE IF is_pattern_allowed /\ component.val = <<"*">>
    THEN [ok |-> TRUE, val |-> Star, allowed |-> is_pattern_allowed]
    ELSE LET n == IntOf(component.val) IN
         IF n.ok THEN [ok |-> TRUE, val |-> n.val, allowed |-> FALSE]
         ELSE [ok |-> FALSE, val |-> NoneV, allowed |-> FALSE]

\* VersionNumber.from_string.  The text split at "." gives the components
\* (major without one leading "V", the hotfix letter taken off the patch
\* level of a version of three components); they are parsed from the right
\* to the left, each with the is_pattern_allowed that the one before left.
Components(v) ==
    LET has_hotfix == Len(v) = 3 /\ v[3][Len(v[3])] \in Range(ascii_lowercase)
    IN  [major |-> IF Head(v[1]) = "V" THEN Tail(v[1]) ELSE v[1],
         minor |-> v[2],
         patch |-> IF has_hotfix THEN SubSeq(v[3], 1, Len(v[3]) - 1) ELSE v[3],
         beta |-> IF Len(v) = 3 THEN None ELSE Some(v[4]),
         hotfix |-> IF has_hotfix THEN v[3][Len(v[3])] ELSE ""]
Parsed(c, pb, pp, pm, pj) ==
    IF pb.ok /\ pp.ok /\ pm.ok /\ pj.ok
    THEN VersionNumber(pj.val, pm.val, pp.val, pb.val, c.hotfix)
    ELSE Raise
ParseMajor(c, pb, pp, pm) ==
    Parsed(c, pb, pp, pm, parse_component(Some(c.major), pm.allowed))
ParseMinor(c, pb, pp) ==
    ParseMajor(c, pb, pp, parse_component(Some(c.minor), pp.allowed))
ParsePatch(c, pb) ==
    ParseMinor(c, pb, parse_component(Some(c.patch), pb.allowed))
ParseBeta(c, is_pattern_allowed) ==
    ParsePatch(c, parse_component(c.beta, is_pattern_allowed))
FromSplit(v, is_pattern_allowed) ==
    IF Len(v) < 3 \/ Len(v) > 4 THEN Raise
    ELSE IF v[1] = <<>> \/ (Len(v) = 3 /\ v[3] = <<>>) THEN Raise
    ELSE ParseBeta(Components(v), is_pattern_allowed)
from_string(version, is_pattern_allowed) ==
    FromSplit(Split(version, "."), is_pattern_allowed)

\* VersionRange.__init__: max_version is None or Some(version)
VersionRange(min_version, max_version) ==
    IF /\ max_version.some
       /\ \/ (min_version.beta = NoneV) # (max_version.val.beta = NoneV)
          \/ VersionLt(max_version.val, min_version)
    THEN Raise
    ELSE Ok([min_version |-> min_version,
             max_version |-> IF max_version.some
                                /\ VersionEq(min_version, max_version.val)
                             THEN None ELSE max_version])

\* VersionRange.from_vrange: vrange is a text or a list of texts; a and b
\* are what from_string gave for the one or the two texts.
RangeFrom(a, b) ==
    IF ~a.ok \/ (b.some /\ ~b.val.ok) THEN Raise
    ELSE VersionRange(a.val, IF b.some THEN Some(b.val.val) ELSE None)
from_vrange(vrange) ==
    IF vrange.kind = "str"
    THEN RangeFrom(from_string(vrange.str, TRUE), None)
    ELSE IF Len(vrange.list) # 2 THEN Raise
    ELSE RangeFrom(from_string(vrange.list[1], TRUE),
                   Some(from_string(vrange.list[2], TRUE)))

\* VersionRange.contains: the lower and the upper boundary check, then the
\* whole for a version that is None or Some(version); it raises for a
\* pattern.
AboveMin(lo, version) ==
    LET sp == pattern_specificity(lo) IN
    ~(/\ sp >= 1
      /\ \/ version.major < lo.major
         \/ /\ version.major = lo.major /\ sp >= 2
            /\ \/ version.minor < lo.minor
               \/ /\ version.minor = lo.minor /\ sp >= 3
                  /\ \/ version.patch < lo.patch
                     \/ /\ version.patch = lo.patch
                        /\ \/ version.hotfix = "" /\ lo.hotfix # ""
                           \/ /\ version.hotfix # "" /\ lo.hotfix # ""
                              /\ HotfixLess(version.hotfix, lo.hotfix)
                           \/ sp >= 4 /\ version.beta < lo.beta)
BelowMax(hi, version) ==
    LET sp == pattern_specificity(hi) IN
    ~(/\ sp >= 1
      /\ \/ version.major > hi.major
         \/ /\ version.major # 0 /\ hi.major # 0 /\ sp >= 2
            /\ \/ version.minor > hi.minor
               \/ /\ version.minor = hi.minor /\ sp >= 3
                  /\ \/ version.patch > hi.patch
                     \/ /\ version.patch = hi.patch
                        /\ \/ hi.hotfix = "" /\ version.hotfix # ""
                           \/ /\ hi.hotfix # "" /\ version.hotfix # ""
                              /\ HotfixLess(hi.hotfix, version.hotfix)
                           \/ sp >= 4 /\ version.beta > hi.beta)
\* A contains that holds None.
contains_NoneInside(self, version) ==
    IF ~version.some THEN Ok(TRUE)
    ELSE IF is_pattern(version.val) THEN Raise
    ELSE IF (version.val.beta = NoneV) # (self.min_version.beta = NoneV)
    THEN Ok(FALSE)
    ELSE IF ~self.max_version.some
    THEN Ok(matches(self.min_version, version.val))
    ELSE Ok(/\ AboveMin(self.min_version, version.val)
            /\ BelowMax(self.max_version.val, version.val))
contains(self, version) ==
    IF ~version.some THEN Ok(FALSE)
    ELSE IF is_pattern(version.val) THEN Raise
    ELSE IF (version.val.beta = NoneV) # (self.min_version.beta = NoneV)
    THEN Ok(FALSE)
    ELSE IF ~self.max_version.some
    THEN Ok(matches(self.min_version, version.val))
    ELSE Ok(/\ AboveMin(self.min_version, version.val)
            /\ BelowMax(self.max_version.val, version.val))

\* ------------------------------------------- recovery system compatibility
\* _determine_compatible_rsys: compat is the "compatibility" object as a
\* sequence of [rev, ranges]; version is None or Some(version).
CompatRanges(compat) ==
    UNION {{<<i, j>> : j \in DOMAIN compat[i].ranges} : i \in DOMAIN compat}
InRange(vr, version) == IF vr.ok THEN contains(vr.val, version) ELSE Raise
Revisions(compat, found) ==
    IF \E ij \in DOMAIN found : ~found[ij].ok THEN Raise
    ELSE Ok({compat[ij[1]].rev : ij \in {x \in DOMAIN found : found[x].val}})
_determine_compatible_rsys(compat, version) ==
    Revisions(compat,
              [ij \in CompatRanges(compat) |->
                 InRange(from_vrange(compat[ij[1]].ranges[ij[2]]), version)])

BestRank_First(rank, revs) ==
    LET at == {i \in DOMAIN rank : rank[i] \in revs}
    IN  IF at = {} THEN 0 ELSE CHOOSE i \in at : \A j \in at : i <= j

\* The last revision of rank that is in revs: position 0 if there is none.
BestRank(rank, revs) ==
    LET at == {i \in DOMAIN rank : rank[i] \in revs}
    IN  IF at = {} THEN 0 ELSE CHOOSE i \in at : \A j \in at : j <= i

\* str(VersionNumber)
RECURSIVE IntStr(_)
IntStr(n) ==
    IF n < 10 THEN <<Digits[n + 1]>>
    ELSE IntStr(n \div 10) \o <<Digits[(n % 10) + 1]>>
VersionStr_NoHotfix(v) ==
    LET str(c) == IF c = Star THEN <<"*">> ELSE IntStr(c) IN
    str(v.major) \o <<".">> \o str(v.minor) \o <<".">> \o str(v.patch)
    \o (IF v.beta # NoneV THEN <<".">> \o str(v.beta) ELSE <<>>)
VersionStr(v) ==
    LET str(c) == IF c = Star THEN <<"*">> ELSE IntStr(c) IN
    str(v.major) \o <<".">> \o str(v.minor) \o <<".">> \o str(v.patch)
    \o (IF v.beta # NoneV THEN <<".">> \o str(v.beta) ELSE <<>>)
    \o (IF v.hotfix # "" THEN <<v.hotfix>> ELSE <<>>)

\* ensure_recovery_system_compatibility: it raises, returns None
\* (Ok(None)) or returns the run-installer step (Ok(Some(step))).
InstallerStep(doc, best, target_release_line, target_version, target_flavor) ==
    IF best = 0 THEN Raise
    ELSE Ok(Some([Step("run-installer") EXCEPT
                    !.requested_line = target_release_line,
                    !.requested_version = VersionStr(target_version),
                    !.requested_flavor = target_flavor,
                    !.installer_url = doc.rank[best]]))
EnsureRevision_AnyRequired(doc, force_rsys_update, required_revisions, installed_revision, target_release_line, target_version, target_flavor) ==
    IF ~required_revisions.ok \/ ~installed_revision.ok THEN Raise
    ELSE IF required_revisions.val # {} /\ ~force_rsys_update THEN Ok(None)
    ELSE InstallerStep(doc, BestRank(doc.rank, required_revisions.val),
                       target_release_line, target_version, target_flavor)
EnsureRevision(doc, force_rsys_update, required_revisions, installed_revision, target_release_line, target_version, target_flavor) ==
    IF ~required_revisions.ok \/ ~installed_revision.ok THEN Raise
    ELSE IF /\ required_revisions.val \cap installed_revision.val # {}
            /\ ~force_rsys_update
    THEN Ok(None)
    ELSE InstallerStep(doc, BestRank(doc.rank, required_revisions.val),
                       target_release_line, target_version, target_flavor)
ensure_recovery_system_compatibility(compat_json, force_rsys_update, rsys_version, target_release_line, target_version, target_flavor) ==
    IF ~compat_json.some THEN Raise
    ELSE EnsureRevision(
             compat_json.val, force_rsys_update,
             _determine_compatible_rsys(compat_json.val.compatibility,
                                        Some(target_version)),
             _determine_compatible_rsys(compat_json.val.compatibility,
                                        rsys_version),
             target_release_line, target_version, target_flavor)

\* ------------------------------------------------------------- planner
\* Texts of version numbers.
Dotted(major, minor, patch) == <<major, ".", minor, ".", patch>>
Text(t) == [kind |-> "str", str |-> t]
FromTo(a, b) == [kind |-> "list", list |-> <<a, b>>]

\* VersionInfo, VersionInfo.from_strbo_release and from_os_release
VersionInfo(version_number, release_line, flavor) ==
    [version_number |-> version_number, release_line |-> release_line,
     flavor |-> flavor]
from_strbo_release(values) ==
    LET v == from_string(values.STRBO_VERSION, FALSE) IN
    IF v.ok THEN Ok(VersionInfo(Some(v.val), values.STRBO_RELEASE_LINE,
                                Some(values.STRBO_FLAVOR)))
    ELSE Raise
from_os_release(values) ==
    LET v == from_string(values.VERSION_ID, FALSE) IN
    IF v.ok THEN Ok(VersionInfo(Some(v.val), "V1", None)) ELSE Raise

\* MainSystem.get_system_version and RecoverySystem.get_system_version for
\* the values parsed from strbo-release and os-release (None: the file
\* cannot be read): None or Some(VersionInfo).
FromFile(info) == IF info.ok THEN Some(info.val) ELSE None
MainSystem_get_system_version(etc) ==
    IF etc.strbo_release.some
    THEN FromFile(from_strbo_release(etc.strbo_release.val))
    ELSE IF etc.os_release.some
    THEN FromFile(from_os_release(etc.os_release.val))
    ELSE None
RecoverySystem_get_system_version(etc) ==
    IF etc.strbo_release.some
    THEN FromFile(from_strbo_release(etc.strbo_release.val))
    ELSE IF etc.os_release.some
    THEN FromFile(from_os_release(etc.os_release.val))
    ELSE Some(VersionInfo(None, "V1", None))
\* RecoverySystem.get_data_version for the values parsed from
\* images/strbo-release.
get_data_version(release) ==
    IF release.some THEN FromFile(from_strbo_release(release.val)) ELSE None

Release(version, line, flavor) ==
    [STRBO_VERSION |-> version, STRBO_RELEASE_LINE |-> line,
     STRBO_FLAVOR |-> flavor]
NoFiles == [strbo_release |-> None, os_release |-> None]
MainEtcs ==
    {NoFiles,
     [NoFiles EXCEPT !.strbo_release = Some(Release(Dotted("3", "0", "0"), "V3", "stable"))],
     [NoFiles EXCEPT !.strbo_release = Some(Release(Dotted("3", "1", "0"), "V3", "beta"))],
     [NoFiles EXCEPT !.strbo_release = Some(Release(<<"3">>, "V3", "stable"))],
     [NoFiles EXCEPT !.strbo_release = Some(Release(Dotted("3", "0", "0"), "V3", ""))],
     [NoFiles EXCEPT !.os_release = Some([VERSION_ID |-> Dotted("1", "0", "0")])]}
RecoveryEtcs ==
    {NoFiles,
     [NoFiles EXCEPT !.strbo_release = Some(Release(Dotted("2", "0", "0"), "V2", "stable"))],
     [NoFiles EXCEPT !.strbo_release = Some(Release(Dotted("4", "0", "0"), "V4", "stable"))],
     [NoFiles EXCEPT !.strbo_release = Some(Release(Dotted("2", "7", "4"), "V2", "stable"))],
     [NoFiles EXCEPT !.strbo_release = Some(Release(Dotted("2", "1", "2"), "V2", "stable"))],
     [NoFiles EXCEPT !.strbo_release = Some(Release(Dotted("2", "9", "0"), "V2", "stable"))],
     [NoFiles EXCEPT !.strbo_release = Some(Release(Dotted("4", "0", "9"), "V4", "stable"))],
     [NoFiles EXCEPT !.strbo_release = Some(Release(<<"x">>, "V2", "stable"))]}
DataReleases ==
    {None, Some(Release(Dotted("3", "1", "0"), "V3", "stable")),
     Some(Release(Dotted("4", "0", "0"), "V4", "stable")),
     Some(Release(<<"V", "4", ".", "0", ".", "0">>, "V4", "beta"))}

\* What the server answers: latest.txt, the compatibility document, the
\* version manifest (the version of the package updata that it lists).
LatestAnswers ==
    {[status |-> 200, text |-> Dotted("4", "0", "0") \o <<"\n">>],
     [status |-> 200, text |-> Dotted("3", "0", "0")],
     [status |-> 200, text |-> Dotted("5", "0", "0")],
     [status |-> 200, text |-> <<"x">>],
     [status |-> 404, text |-> <<>>]}
CompatDoc ==
    [compatibility |->
        <<[rev |-> "3-r0",
           ranges |-> <<Text(<<"2", ".", "*", ".", "*">>),
                        FromTo(Dotted("3", "0", "0"), Dotted("3", "1", "0"))>>],
          [rev |-> "4-r0",
           ranges |-> <<Text(<<"4", ".", "*", ".", "*">>),
                        Text(<<"3", ".", "1", ".", "*">>)>>]>>,
     rank |-> <<"3-r0", "4-r0">>]
\* The last two documents are the one of _test_extended_compatibilities and
\* one with the ranges of the doctests of VersionRange.contains.
CompatAnswers ==
    {None, Some(CompatDoc),
     Some([CompatDoc EXCEPT !.rank = <<"4-r0", "3-r0">>]),
     Some([compatibility |->
             <<[rev |-> "3-r0",
                ranges |-> <<Text(<<"3", ".", "0", ".", "*">>),
                             Text(<<"3", ".", "0", ".", "*", ".", "*">>)>>],
               [rev |-> "3-r1",
                ranges |-> <<Text(<<"3", ".", "0", ".", "*">>),
                             Text(<<"3", ".", "0", ".", "*", ".", "*">>)>>],
               [rev |-> "3-r2",
                ranges |-> <<Text(<<"3", ".", "1", ".", "*">>),
                             Text(<<"3", ".", "1", ".", "*", ".", "*">>),
                             Text(<<"4", ".", "*", ".", "*">>),
                             Text(<<"4", ".", "*", ".", "*", ".", "*">>)>>]>>,
           rank |-> <<"3-r0", "3-r1", "3-r2">>]),
     Some([compatibility |->
             <<[rev |-> "2-r0",
                ranges |-> <<FromTo(Dotted("2", "3", "4"),
                                    <<"2", ".", "*", ".", "*">>)>>],
               [rev |-> "3-r0",
                ranges |-> <<FromTo(Dotted("1", "0", "0"),
                                    Dotted("3", "2", "0"))>>]>>,
           rank |-> <<"2-r0", "3-r0">>])}
this_version == <<2, 0>>
ManifestAnswers ==
    {[ok |-> FALSE, updata |-> None], [ok |-> TRUE, updata |-> None],
     [ok |-> TRUE, updata |-> Some(<<1, 9>>)],
     [ok |-> TRUE, updata |-> Some(<<2>>)],
     [ok |-> TRUE, updata |-> Some(<<2, 0>>)],
     [ok |-> TRUE, updata |-> Some(<<2, 0, 1>>)]}
FlavorFiles == {None, Some(<<>>), Some(<<"beta", "\n">>), Some(<<"beta">>)}

PlannerArgs ==
    [target_version : {None, Some(from_string(Dotted("3", "1", "0"), FALSE).val),
                       Some(from_string(Dotted("4", "0", "0"), FALSE).val),
                       Some(from_string(Dotted("3", "0", "0"), FALSE).val),
                       Some(from_string(Dotted("3", "0", "2"), FALSE).val)},
     target_release_line : {None, Some("V3"), Some("V4")},
     target_flavor : {None, Some("stable"), Some("beta")},
     force_image_files : BOOLEAN,
     force_rsys_update : BOOLEAN,
     keep_user_data : BOOLEAN]

\* str.strip() for blanks and line ends
IsSpace(c) == c \in {" ", "\n"}
RECURSIVE Strip(_)
Strip(t) ==
    IF t = <<>> THEN t
    ELSE IF IsSpace(Head(t)) THEN Strip(Tail(t))
    ELSE IF IsSpace(t[Len(t)]) THEN Strip(SubSeq(t, 1, Len(t) - 1))
    ELSE t

\* _read_latest_txt_file: None or Some(version)
_read_latest_txt_file(answer) ==
    IF answer.status = 200
    THEN LET v == from_string(Strip(answer.text), FALSE) IN
         IF v.ok THEN Some(v.val) ELSE None
    ELSE None

\* _version_compare for versions as lists of numbers, None or Some(list)
RECURSIVE CompareLists(_, _)
CompareLists(a, b) ==
    IF a = <<>> \/ b = <<>> THEN Len(a) - Len(b)
    ELSE IF Head(a) < Head(b) THEN -1
    ELSE IF Head(a) > Head(b) THEN 1
    ELSE CompareLists(Tail(a), Tail(b))
_version_compare_Prefix(version_a, version_b) ==
    IF ~version_a.some THEN (IF ~version_b.some THEN 0 ELSE -1)
    ELSE IF ~version_b.some THEN 1
    ELSE LET n == IF Len(version_a.val) < Len(version_b.val)
                  THEN Len(version_a.val) ELSE Len(version_b.val)
         IN  CompareLists(SubSeq(version_a.val, 1, n),
                          SubSeq(version_b.val, 1, n))
_version_compare(version_a, version_b) ==
    IF ~version_a.some THEN (IF ~version_b.some THEN 0 ELSE -1)
    ELSE IF ~version_b.some THEN 1
    ELSE CompareLists(version_a.val, version_b.val)

\* A flavor as the text a dnf variable file holds for it.
AsText(flavor) == IF flavor = "" THEN <<>> ELSE <<flavor>>
\* configured_flavor != target_flavor
FlavorDiffers(configured_flavor, target_flavor) ==
    IF configured_flavor.some /\ target_flavor.some
    THEN configured_flavor.val # AsText(target_flavor.val)
    ELSE configured_flavor.some # target_flavor.some

\* _handle_repo_changes
_handle_repo_changes(release_line, current_flavor, target_flavor, configured_flavor) ==
    LET wanted == IF target_flavor.some THEN target_flavor ELSE current_flavor
        target == IF wanted = Some("stable") THEN Some("") ELSE wanted
        differs == FlavorDiffers(configured_flavor, target)
        disable == /\ configured_flavor.some /\ configured_flavor.val # <<>>
                   /\ differs
        enable == target.some /\ target.val # "" /\ differs
    IN  [step |->
            [Step("manage-repos") EXCEPT
                !.base_url = Some(<<"http://u">>),
                !.release_line = Some(<<release_line>>),
                !.disable_flavor = IF disable THEN configured_flavor ELSE None,
                !.enable_flavor = IF enable THEN Some(AsText(target.val))
                                  ELSE None],
         target_flavor |-> target,
         flavor_was_changed |-> (target # current_flavor)]

_handle_version_change_Unforced(current_version, this_updata_version, target_version, force_version_check, latest, manifest) ==
    LET wanted == IF target_version.some THEN target_version
                  ELSE _read_latest_txt_file(latest)
    IN  IF ~wanted.some THEN Ok(None)
        ELSE IF current_version.some /\ VersionEq(wanted.val, current_version.val)
        THEN Ok(None)
        ELSE IF ~manifest.ok THEN Raise
        ELSE Ok(Some([Step("dnf-install") EXCEPT
                        !.requested_version = VersionStr(wanted.val)]))

\* _handle_version_change: it raises, returns None or the dnf-install step.
_handle_version_change(current_version, this_updata_version, target_version, force_version_check, latest, manifest) ==
    LET wanted == IF target_version.some THEN target_version
                  ELSE _read_latest_txt_file(latest)
    IN  IF ~wanted.some THEN Ok(None)
        ELSE IF /\ current_version.some
                /\ VersionEq(wanted.val, current_version.val)
                /\ ~force_version_check
        THEN Ok(None)
        ELSE IF ~manifest.ok THEN Raise
        ELSE LET cmp == _version_compare(manifest.updata,
                                         Some(this_updata_version))
                 mode == IF cmp >= 0 THEN None
                         ELSE IF manifest.updata.some
                         THEN Some("deferred_downgrade")
                         ELSE Some("deferred_removal")
             IN  Ok(Some([Step("dnf-install") EXCEPT
                            !.requested_version = VersionStr(wanted.val),
                            !.updata_update = mode]))

_compute_package_manager_strategy_RebootForInstall(strategy, opts, this_updata_version, main_version, target_release_line, configured_flavor, latest, manifest) ==
    LET repo == _handle_repo_changes(target_release_line, main_version.flavor,
                                     opts.target_flavor, configured_flavor)
        inst == _handle_version_change(main_version.version_number,
                                       this_updata_version,
                                       opts.target_version,
                                       repo.flavor_was_changed,
                                       latest, manifest)
    IN  IF ~inst.ok THEN Raise
        ELSE Ok(strategy \o <<repo.step>>
                \o (IF inst.val.some
                    THEN <<inst.val.val, Step("reboot-system")>> ELSE <<>>))

\* _compute_package_manager_strategy: the strategy after it, or it raises.
_compute_package_manager_strategy(strategy, opts, this_updata_version, main_version, target_release_line, configured_flavor, latest, manifest) ==
    LET repo == _handle_repo_changes(target_release_line, main_version.flavor,
                                     opts.target_flavor, configured_flavor)
        inst == _handle_version_change(main_version.version_number,
                                       this_updata_version,
                                       opts.target_version,
                                       repo.flavor_was_changed,
                                       latest, manifest)
    IN  IF ~inst.ok THEN Raise
        ELSE Ok(strategy \o <<repo.step>>
                \o (IF inst.val.some THEN <<inst.val.val>> ELSE <<>>)
                \o <<Step("reboot-system")>>)

\* _determine_recovery_target_version: [target_version, target_flavor], or
\* it raises.
_determine_recovery_target_version(opts, default_flavor, latest) ==
    LET wanted == IF opts.target_flavor.some THEN opts.target_flavor
                  ELSE default_flavor
        target_flavor == IF ~wanted.some \/ wanted.val = "" THEN "stable"
                         ELSE wanted.val
        target_version == IF opts.target_version.some THEN opts.target_version
                          ELSE _read_latest_txt_file(latest)
    IN  IF ~target_version.some THEN Raise
        ELSE Ok([target_version |-> target_version.val,
                 target_flavor |-> target_flavor])

\* The executor is not part of a run of the planner.
ExecutorOff ==
    /\ args = [plan |-> <<>>, avoid_reboot |-> FALSE, reboot_only |-> FALSE]
    /\ server = <<>>
    /\ proc = "halt"
    /\ exit_code = -1
    /\ step_no = 0
    /\ pc = "off"
    /\ symlink = FALSE
    /\ tempfiles = None
    /\ manifest_txt = None
    /\ dnf_vars = [n \in DnfVarNames |-> None]
    /\ installed = {}
    /\ cache = {}
    /\ loc = LocInit
    /\ cmds = <<>>
    /\ trace = <<>>
    /\ raised = NoExc
    /\ reboot = "no"
    /\ reboot_failed = FALSE
    /\ runs = <<>>
    /\ kills = 0

\* The two test options of the parsed command line: --test-sysroot has the
\* default "/", --test-version has none (the version given for testing is
\* the one of the package, this_version).
DefaultTestArgs == [test_sysroot |-> "/", test_version |-> None]
TestArgs ==
    [test_sysroot : {"/", "/tmp/sysroot"},
     test_version : {None, Some(this_version)}]
\* The test options are drawn for the command lines that name no target;
\* the others are started without test options.
TestArgsFor(opts) ==
    IF opts.target_version.some \/ opts.target_release_line.some
       \/ opts.target_flavor.some
    THEN {DefaultTestArgs} ELSE TestArgs

PlanInit ==
    /\ ExecutorOff
    /\ lib = LibOff
    /\ \E opts \in PlannerArgs, etc \in MainEtcs :
          \E test \in TestArgsFor(opts) :
             planner = [PlannerOff EXCEPT !.pc = "args", !.opts = opts,
                                          !.etc = etc, !.test = test]

executor == <<args, server, proc, exit_code, step_no, pc, symlink, tempfiles,
              manifest_txt, dnf_vars, installed, cache, loc, cmds, trace,
              raised, reboot, reboot_failed, runs, kills>>

PlanExit_Exception(code) == [planner EXCEPT !.pc = "exit", !.exit = 1]

\* The planner ends with an exit status: 23, 24, or 1 for an exception.
PlanExit(code) == [planner EXCEPT !.pc = "exit", !.exit = code]

PackageManagerPath_SameLine(target_release_line, main_version, opts) ==
    target_release_line = main_version.release_line

\* The condition of main() for the package-manager path.
PackageManagerPath(target_release_line, main_version, opts) ==
    /\ target_release_line = main_version.release_line
    /\ ~opts.force_image_files

\* 'name' in args for the argparse.Namespace args: the name is one of its
\* attributes.
NamespaceContains(namespace, name) == name \in DOMAIN namespace
\* test_mode of main()
test_mode(test) ==
    NamespaceContains(test, "test_sysroot")
    \/ NamespaceContains(test, "test_version")
\* What run_as_user can end with: the user is changed, or PermissionError
\* or KeyError is raised again.
RunAsUserOutcomes == {"ok", "PermissionError", "KeyError"}

\* main() up to run_as_user
PlRunAsUser ==
    /\ planner.pc = "args"
    /\ IF test_mode(planner.test)
       THEN planner' = [planner EXCEPT !.pc = "start"]
       ELSE \E o \in RunAsUserOutcomes :
              planner' = IF o = "ok"
                         THEN [planner EXCEPT !.pc = "start",
                                              !.user = "updata"]
                         ELSE PlanExit(1)
    /\ UNCHANGED <<lib, executor>>

\* main() up to the choice of the path.
PlReadMain ==
    /\ planner.pc = "start"
    /\ LET main_version == MainSystem_get_system_version(planner.etc) IN
       IF ~main_version.some
       THEN planner' = PlanExit(23)
       ELSE LET target_release_line ==
                    IF planner.opts.target_release_line.some
                    THEN planner.opts.target_release_line.val
                    ELSE main_version.val.release_line
                package ==
                    PackageManagerPath(target_release_line, main_version.val,
                                       planner.opts)
            IN  planner' =
                  [planner EXCEPT
                     !.main_version = main_version,
                     !.target_release_line = target_release_line,
                     !.strategy = <<Step("nop")>>,
                     !.path = IF package THEN "package" ELSE "recovery",
                     !.pc = IF package THEN "package" ELSE "recovery"]
    /\ UNCHANGED <<lib, executor>>

\* The package-manager path.
PlPackageManager ==
    /\ planner.pc = "package"
    /\ \E vs \in [strbo_flavor : FlavorFiles], latest \in LatestAnswers,
          manifest \in ManifestAnswers :
         LET configured_flavor == read_var(vs, "strbo_flavor")
             res == _compute_package_manager_strategy(
                        planner.strategy, planner.opts, this_version,
                        planner.main_version.val, planner.target_release_line,
                        configured_flavor, latest, manifest)
             read == Some([configured_flavor |-> configured_flavor,
                           latest |-> latest, manifest |-> manifest])
         IN  planner' = IF res.ok
                        THEN [planner EXCEPT !.strategy = res.val,
                                             !.read = read, !.pc = "write"]
                        ELSE [PlanExit(1) EXCEPT !.read = read]
    /\ UNCHANGED <<lib, executor>>

\* The recovery path: the target version and flavor.
PlRecoveryTarget ==
    /\ planner.pc = "recovery"
    /\ \E latest \in LatestAnswers :
         LET res == _determine_recovery_target_version(
                        planner.opts, planner.main_version.val.flavor, latest)
         IN  planner' = IF res.ok
                        THEN [planner EXCEPT
                                !.target_version = Some(res.val.target_version),
                                !.target_flavor = res.val.target_flavor,
                                !.pc = "rsys"]
                        ELSE PlanExit(1)
    /\ UNCHANGED <<lib, executor>>

\* The recovery path: the version of the installed recovery system.
PlRecoverySystem ==
    /\ planner.pc = "rsys"
    /\ \E etc \in RecoveryEtcs :
         LET recovery_version == RecoverySystem_get_system_version(etc) IN
         planner' = IF recovery_version.some
                    THEN [planner EXCEPT
                            !.recovery_etc = Some(etc),
                            !.recovery_version = recovery_version,
                            !.pc = "compat"]
                    ELSE [PlanExit(24) EXCEPT !.recovery_etc = Some(etc)]
    /\ UNCHANGED <<lib, executor>>

\* The recovery path: read_recovery_compatibility_file and
\* ensure_recovery_system_compatibility, "if step: strategy.append(step)".
Ensured(compat_json, step) ==
    IF ~step.ok THEN [PlanExit(1) EXCEPT !.compat_json = compat_json]
    ELSE [planner EXCEPT
            !.compat_json = compat_json,
            !.ensured = step.val,
            !.strategy = IF step.val.some THEN Append(@, step.val.val) ELSE @,
            !.pc = "data"]
PlCompatibility ==
    /\ planner.pc = "compat"
    /\ \E compat_json \in CompatAnswers :
         planner' = Ensured(compat_json,
                            ensure_recovery_system_compatibility(
                                compat_json, planner.opts.force_rsys_update,
                                planner.recovery_version.val.version_number,
                                planner.target_release_line,
                                planner.target_version.val,
                                planner.target_flavor))
    /\ UNCHANGED <<lib, executor>>

NeedsRecoveryData_MissingOnly(dv, target_version) == ~dv.some

\* dv is None or its version is not the target version.
NeedsRecoveryData(dv, target_version) ==
    \/ ~dv.some
    \/ ~(/\ dv.val.version_number.some
         /\ VersionEq(dv.val.version_number.val, target_version))

\* The recovery path: the recover-system step; head_ok is the answer to the
\* HEAD request of _ensure_url_exists.
PlRecoverSystem ==
    /\ planner.pc = "data"
    /\ \E release \in DataReleases, head_ok \in BOOLEAN :
         LET dv == get_data_version(release)
             needed == NeedsRecoveryData(dv, planner.target_version.val)
             step == [Step("recover-system") EXCEPT
                        !.requested_line = planner.target_release_line,
                        !.requested_version =
                            VersionStr(planner.target_version.val),
                        !.requested_flavor = planner.target_flavor,
                        !.keep_user_data = planner.opts.keep_user_data,
                        !.has_recovery_data_url = needed]
         IN  planner' =
               IF needed /\ ~head_ok THEN [PlanExit(1) EXCEPT !.dv = dv]
               ELSE [planner EXCEPT !.dv = dv,
                                    !.strategy = Append(@, step),
                                    !.pc = "write"]
    /\ UNCHANGED <<lib, executor>>

\* The strategy is written to the output file or printed.
PlWrite ==
    /\ planner.pc = "write"
    /\ planner' = [planner EXCEPT !.out = Some(planner.strategy),
                                  !.pc = "exit", !.exit = 0]
    /\ UNCHANGED <<lib, executor>>

PlanNext ==
    \/ PlRunAsUser
    \/ PlReadMain
    \/ PlPackageManager
    \/ PlRecoveryTarget
    \/ PlRecoverySystem
    \/ PlCompatibility
    \/ PlRecoverSystem
    \/ PlWrite

PlanSpec == PlanInit /\ [][PlanNext]_vars

\* ------------------------------------------------- the library on its own
\* Calls of VersionNumber for the texts a, b and c: from_string for each,
\* then the comparisons of the three versions, matches of the first for the
\* second, or str of the first and from_string of what it gives.
VersionTexts ==
    {<<"1", ".", "2", ".", "3">>, <<"1", ".", "2", ".", "3", "a">>,
     <<"1", ".", "2", ".", "3", "b">>, <<"1", ".", "2", ".", "3", ".", "0">>,
     <<"1", ".", "2", ".", "3", ".", "1">>, <<"1", ".", "2", ".", "4">>,
     <<"1", ".", "2", ".", "4", ".", "0">>, <<"1", ".", "1", "0", ".", "0">>,
     <<"0", ".", "9", ".", "0", "c">>, <<"V", "1", ".", "2", ".", "3">>,
     <<"0", ".", "9", ".", "0">>, <<"0", ".", "9", ".", "0", "d">>,
     <<"0", "1", ".", "2", ".", "3", "a">>,
     <<"1", ".", "2", ".", "*">>, <<"1", ".", "*", ".", "*">>,
     <<"*", ".", "*", ".", "*">>, <<"1", ".", "2", ".", "3", ".", "*">>,
     <<"1", ".", "2", ".", "*", ".", "*">>, <<"V", "*", ".", "*", ".", "*", ".", "*">>,
     <<"V", "1", ".", "*", ".", "2", ".", "*">>, <<"*", ".", "3", ".", "1", ".", "*">>,
     <<"1", ".", "2", ".", "*", "a">>, <<"1", ".", "2">>}
VersionInit ==
    /\ ExecutorOff
    /\ planner = PlannerOff
    /\ \E a \in VersionTexts, b \in VersionTexts, c \in VersionTexts,
          is_pattern_allowed \in BOOLEAN :
          lib = [pc |-> "text", a |-> a, b |-> b, c |-> c,
                 is_pattern_allowed |-> is_pattern_allowed,
                 v |-> <<>>, lt |-> <<>>, eq |-> <<>>, matched |-> None,
                 str |-> <<>>, again |-> None, range |-> None,
                 version |-> None, inside |-> None]

\* VersionNumber.from_string for the three texts.
VnFromString ==
    /\ lib.pc = "text"
    /\ lib' = [lib EXCEPT
                 !.pc = "parsed",
                 !.v = <<from_string(lib.a, lib.is_pattern_allowed),
                         from_string(lib.b, lib.is_pattern_allowed),
                         from_string(lib.c, lib.is_pattern_allowed)>>]
    /\ UNCHANGED <<planner, executor>>

\* x < y and x == y for every two of the three versions.
VnCompare ==
    /\ lib.pc = "parsed"
    /\ \A i \in 1..3 : lib.v[i].ok
    /\ lib' = [lib EXCEPT
                 !.pc = "compared",
                 !.lt = [x \in 1..3 |-> [y \in 1..3 |->
                            VersionLt(lib.v[x].val, lib.v[y].val)]],
                 !.eq = [x \in 1..3 |-> [y \in 1..3 |->
                            VersionEq(lib.v[x].val, lib.v[y].val)]]]
    /\ UNCHANGED <<planner, executor>>

\* a.matches(b): it raises for a pattern b.
VnMatches ==
    /\ lib.pc = "parsed"
    /\ lib.v[1].ok /\ lib.v[2].ok
    /\ lib' = [lib EXCEPT
                 !.pc = "matched",
                 !.matched = IF is_pattern(lib.v[2].val) THEN Raise
                             ELSE Ok(matches(lib.v[1].val, lib.v[2].val))]
    /\ UNCHANGED <<planner, executor>>

\* str(a) and from_string of it.
VnStr ==
    /\ lib.pc = "parsed"
    /\ lib.v[1].ok
    /\ lib' = [lib EXCEPT
                 !.pc = "formatted",
                 !.str = VersionStr(lib.v[1].val),
                 !.again = from_string(VersionStr(lib.v[1].val),
                                       lib.is_pattern_allowed)]
    /\ UNCHANGED <<planner, executor>>

\* VersionRange.from_vrange([a, b]).contains(VersionNumber.from_string(c))
VnContains ==
    /\ lib.pc = "text"
    /\ LET range == from_vrange(FromTo(lib.a, lib.b))
           version == from_string(lib.c, FALSE)
       IN  /\ range.ok /\ version.ok
           /\ lib' = [lib EXCEPT
                        !.pc = "contained",
                        !.range = Some(range.val),
                        !.version = Some(version.val),
                        !.inside = contains(range.val, Some(version.val))]
    /\ UNCHANGED <<planner, executor>>

VersionNext ==
    \/ VnContains
    \/ VnFromString
    \/ VnCompare
    \/ VnMatches
    \/ VnStr

VersionSpec == VersionInit /\ [][VersionNext]_vars

\* ------------------------------- RecoverySystem.get_data_version, called
\* on its own: the partition is declared mounted or not, the commands are
\* executed or only logged (test mode), images/strbo-release is as drawn.
DataReleaseFiles ==
    DataReleases
    \cup {Some(Release(<<"1", ".", "2">>, "V1", "stable")),
          Some(Release(<<"4", ".", "*", ".", "*">>, "V4", "stable")),
          Some(Release(Dotted("2", "9", "0"), "V2", "beta"))}
DataVersionInit ==
    /\ ExecutorOff
    /\ planner = PlannerOff
    /\ \E data_mountpoint_mounted \in BOOLEAN, is_test_mode \in BOOLEAN,
          release \in DataReleaseFiles :
          lib = [pc |-> "get_data_version",
                 data_mountpoint_mounted |-> data_mountpoint_mounted,
                 is_test_mode |-> is_test_mode, release |-> release,
                 unmount_needed |-> FALSE, run |-> <<>>, result |-> None]

\* run_command: in test mode the command is logged only and nothing can
\* fail; otherwise the subprocess ends with 0 or run_command raises.
run_command_outcomes(in_test_mode) ==
    IF in_test_mode THEN {"ok"} ELSE CmdOutcomes
run_command(cmd, in_test_mode, outcome) ==
    [cmd |-> cmd, test_mode |-> in_test_mode, outcome |-> outcome]

\* finally: the commands that the finally clause runs
Finally_Always(unmount_needed) == <<"umount">>
Finally(unmount_needed) == IF unmount_needed THEN <<"umount">> ELSE <<>>

\* try: mount unless the partition is declared mounted
GdvMount ==
    /\ lib.pc = "get_data_version"
    /\ IF lib.data_mountpoint_mounted
       THEN lib' = [lib EXCEPT !.pc = "parse"]
       ELSE \E o \in run_command_outcomes(lib.is_test_mode) :
              lib' = [lib EXCEPT
                        !.run = Append(@, run_command("mount",
                                                      lib.is_test_mode, o)),
                        !.unmount_needed = (o = "ok"),
                        !.pc = IF o = "ok" THEN "parse" ELSE "finally"]
    /\ UNCHANGED <<planner, executor>>
\* _parse_shell_style_file and from_strbo_release; every exception is
\* caught and gives None
GdvParse ==
    /\ lib.pc = "parse"
    /\ lib' = [lib EXCEPT !.result = get_data_version(lib.release),
                          !.pc = "finally"]
    /\ UNCHANGED <<planner, executor>>
\* finally: umount when it is needed; a failing umount raises out of
\* get_data_version
GdvFinally ==
    /\ lib.pc = "finally"
    /\ LET todo == Finally(lib.unmount_needed) IN
       IF todo = <<>>
       THEN lib' = [lib EXCEPT !.pc = "returned"]
       ELSE \E o \in run_command_outcomes(lib.is_test_mode) :
              lib' = [lib EXCEPT
                        !.run = Append(@, run_command(todo[1],
                                                      lib.is_test_mode, o)),
                        !.pc = IF o = "ok" THEN "returned" ELSE "raised"]
    /\ UNCHANGED <<planner, executor>>

DataVersionNext ==
    \/ GdvMount
    \/ GdvParse
    \/ GdvFinally

DataVersionSpec == DataVersionInit /\ [][DataVersionNext]_vars

\* ------------------------- planning, executing manage-repos, planning again
\* _handle_repo_changes on the variable strbo_flavor as it is, do_manage_repos
\* for the step it gave, and _handle_repo_changes again with the same
\* arguments on the variables do_manage_repos left.
RoundFlavors == {None, Some(""), Some("stable"), Some("beta"), Some("nightly")}
RoundFlavorFiles == FlavorFiles \cup {Some(<<"nightly", "\n">>)}
RoundInit ==
    /\ ExecutorOff
    /\ planner = PlannerOff
    /\ \E current_flavor \in RoundFlavors, target_flavor \in RoundFlavors,
          content \in RoundFlavorFiles, skipped \in BOOLEAN :
          lib = [pc |-> "plan", current_flavor |-> current_flavor,
                 target_flavor |-> target_flavor, skipped |-> skipped,
                 vars |-> [[n \in DnfVarNames |-> None]
                             EXCEPT !["strbo_flavor"] = content],
                 step |-> None, again |-> None]

RoundPlan ==
    /\ lib.pc = "plan"
    /\ lib' = [lib EXCEPT
                 !.pc = "execute",
                 !.step = Some(_handle_repo_changes(
                                   "V3", lib.current_flavor, lib.target_flavor,
                                   read_var(lib.vars, "strbo_flavor")).step)]
    /\ UNCHANGED <<planner, executor>>
\* do_manage_repos: nothing with --reboot-only or in offline mode (skipped)
RoundManageRepos ==
    /\ lib.pc = "execute"
    /\ lib' = [lib EXCEPT
                 !.pc = "plan again",
                 !.vars = IF lib.skipped THEN @
                          ELSE ManageReposWrites(lib.step.val, @)]
    /\ UNCHANGED <<planner, executor>>
RoundPlanAgain ==
    /\ lib.pc = "plan again"
    /\ lib' = [lib EXCEPT
                 !.pc = "planned",
                 !.again = Some(_handle_repo_changes(
                                    "V3", lib.current_flavor, lib.target_flavor,
                                    read_var(lib.vars, "strbo_flavor")).step)]
    /\ UNCHANGED <<planner, executor>>

RoundNext ==
    \/ RoundPlan
    \/ RoundManageRepos
    \/ RoundPlanAgain

RoundSpec == RoundInit /\ [][RoundNext]_vars

\* ----------------------------------------------------------- properties
Last(seq) == seq[Len(seq)]
DefaultFlags == ~args.avoid_reboot /\ ~args.reboot_only
IsPackagePlan == args.plan \in PackagePlans
Issued(what) == \E i \in DOMAIN cmds : cmds[i].what = what
DlPositions == {"dl_clean", "dl_rm_tempfiles", "dl_manifest", "dl_download",
                "dl_symlink"}
OuPositions == {"ou_install", "ou_ldconfig_install", "ou_list", "ou_remove",
                "ou_ldconfig_remove", "ou_deferred_install",
                "ou_deferred_remove", "ou_cleanup", "ou_unlink"}

\* C1 as stated: a dnf-install step that is executed runs Phase 1 when
\* /system-update is absent and Phase 2 when it is present.
C1_PhaseFromSymlinkAlone ==
    \A i \in DOMAIN runs :
        /\ runs[i].link = "absent" => runs[i].phase = "download"
        /\ runs[i].link = "present" => runs[i].phase = "apply"

\* C1: without --reboot-only an executed dnf-install step runs Phase 1 when
\* /system-update is absent and Phase 2 when it is present, and with
\* --reboot-only it runs neither; Phase 1 creates the symlink only at its end
\* and ends with ExitForOfflineUpdate; Phase 2 has the symlink deleted, and
\* it is absent when Phase 2 is through; of two successive invocations with
\* a reboot in between that execute the step, the first in Phase 1, the
\* second is in Phase 2.
C1_PhaseFromSymlink ==
    /\ \A i \in DOMAIN runs :
        /\ runs[i].link = "absent" =>
              runs[i].phase = IF args.reboot_only THEN "none" ELSE "download"
        /\ runs[i].link = "present" =>
              runs[i].phase = IF args.reboot_only THEN "none" ELSE "apply"
        /\ runs[i].link = "n/a" => runs[i].phase = "none"
    /\ proc = "run" /\ pc \in DlPositions =>
          ~symlink /\ Last(runs).phase = "download"
    /\ proc = "run" /\ pc = "offline_exit" =>
          /\ symlink
          /\ raised = [exc |-> "ExitForOfflineUpdate", at |-> "step"]
          /\ Last(runs).phase = "download"
    /\ raised.exc = "ExitForOfflineUpdate" =>
          Last(runs).phase = "download" /\ Last(cmds).what =
              IF pc = "offline_exit" \/ args.avoid_reboot
              THEN "ln -s dnf_work_dir /system-update"
              ELSE "systemctl isolate reboot.target"
    /\ proc = "run" /\ pc \in OuPositions =>
          ~symlink /\ Last(runs).phase = "apply"
    /\ runs # <<>> /\ Last(runs).finished =>
          ~symlink /\ Last(runs).phase = "apply"
    /\ \A i \in DOMAIN runs :
          (/\ i > 1
           /\ runs[i].why = "booted"
           /\ runs[i - 1].phase = "download"
           /\ runs[i].link # "n/a") => runs[i].phase = "apply"

\* Phase 1 in one invocation, a reboot, Phase 2 through in the next.
C1_Witness ==
    /\ Len(runs) >= 2
    /\ runs[Len(runs) - 1].phase = "download"
    /\ Last(runs).why = "booted"
    /\ Last(runs).link = "present"
    /\ Last(runs).phase = "apply"
    /\ Last(runs).finished
    /\ ~symlink

\* Phase 2 is through: the downloaded set is installed, /system-update is
\* absent and manifest.txt is deleted.
Phase2Complete ==
    /\ \E i \in DOMAIN runs : runs[i].finished
    /\ tempfiles.some => Range(tempfiles.val) \subseteq installed
    /\ ~symlink
    /\ ~manifest_txt.some
\* The executor ended on a failed command or request.
Failed == proc = "exit" /\ exit_code \notin {-1, 0}
JustKilled == proc = "off" /\ pc = "killed"

\* C2 as stated: from a kill during a package-manager plan, with the
\* executor invoked again and requested reboots taking place, Phase 2 is
\* eventually through unless a command or request fails.
C2_KilledEventuallyApplied ==
    (IsPackagePlan /\ JustKilled) ~> (Phase2Complete \/ Failed)

\* C2: without --avoid-reboot and --reboot-only, from a kill during a
\* package-manager plan, with the executor invoked again and requested
\* reboots taking place, Phase 2 is eventually through (the downloaded set
\* installed, /system-update absent, manifest.txt deleted) unless a command
\* or request fails.
C2_KilledEventuallyAppliedByDefault ==
    (IsPackagePlan /\ DefaultFlags /\ JustKilled) ~> (Phase2Complete \/ Failed)

\* Killed in the middle of Phase 2, started again, and Phase 2 through with
\* packages downloaded.
C2_Witness ==
    /\ IsPackagePlan /\ DefaultFlags
    /\ kills > 0
    /\ \E i \in DOMAIN runs :
          /\ i > 1
          /\ runs[i].why = "killed"
          /\ runs[i - 1].phase = "apply"
          /\ ~runs[i - 1].finished
    /\ Last(runs).finished
    /\ tempfiles.some /\ tempfiles.val # <<>>
    /\ Phase2Complete

\* C3: in Phase 2 of a dnf-install step with updata_update deferred_downgrade
\* or deferred_removal, no file of the main "dnf install" has a name that
\* starts with "updata-", no package of the main "dnf remove" has a name
\* that starts with "updata", and "dnf install deferred" and "dnf remove
\* deferred" are commands of their own, issued after the main install and
\* the main removal, the deferred install with UpdaTA files only.
IsDeferredCmd(c) == c.what \in {"dnf install deferred", "dnf remove deferred"}
IsMainCmd(c) == c.what \in {"dnf install", "dnf remove"}
OfDeferredStep(c) == with_deferred_updata(args.plan[c.step])
C3_DeferredAfterMain ==
    \A i \in DOMAIN cmds :
        /\ (cmds[i].what = "dnf install" /\ OfDeferredStep(cmds[i])) =>
              \A f \in Range(cmds[i].arg) :
                  ~StartsWith(FileName(f), S_updataD)
        /\ (cmds[i].what = "dnf remove" /\ OfDeferredStep(cmds[i])) =>
              \A id \in cmds[i].arg : ~StartsWith(id, S_updata)
        /\ cmds[i].what = "dnf install deferred" =>
              /\ OfDeferredStep(cmds[i])
              /\ \A f \in Range(cmds[i].arg) :
                    StartsWith(FileName(f), S_updataD)
        /\ cmds[i].what = "dnf remove deferred" =>
              /\ OfDeferredStep(cmds[i])
              /\ \A id \in cmds[i].arg : StartsWith(id, S_updata)
        /\ IsDeferredCmd(cmds[i]) =>
              \A j \in DOMAIN cmds :
                  (IsMainCmd(cmds[j]) /\ cmds[j].step = cmds[i].step) => j < i
        /\ cmds[i].what = "dnf remove deferred" =>
              \A j \in DOMAIN cmds :
                  (cmds[j].what = "dnf install deferred"
                   /\ cmds[j].step = cmds[i].step) => j < i

\* A main install and a main removal, then the deferred install of an
\* UpdaTA package.
C3_Witness ==
    \E i, j, k \in DOMAIN cmds :
        /\ i < j /\ j < k
        /\ cmds[i].what = "dnf install" /\ cmds[i].arg # <<>>
        /\ cmds[j].what = "dnf remove" /\ cmds[j].arg # {}
        /\ cmds[k].what = "dnf install deferred"
        /\ UpdataOld \in Range(cmds[k].arg)
        /\ OfDeferredStep(cmds[k])

\* The loop of main() has ended at the step it was at: no step after the
\* one that raised was visited.
NoLaterStep == trace # <<>> /\ Last(trace).idx = step_no
\* ExitForOfflineUpdate reached the except clause of main().
OfflineExitTaken ==
    \/ raised = [exc |-> "ExitForOfflineUpdate", at |-> "step"]
    \/ raised.at = "except ExitForOfflineUpdate"
RaisedByStep(exc) == raised = [exc |-> exc, at |-> "step"]
StepExits(exc, code) ==
    (proc = "exit" /\ RaisedByStep(exc)) => (exit_code = code /\ NoLaterStep)

C5_FailedRebootExits10 ==
    reboot_failed => (proc = "exit" /\ exit_code = 10)

\* C6: the loop of main() visits the steps in the order of the plan, one at
\* a time and none twice; exactly the steps with an action that is not known
\* are skipped, a skip does not end the loop, and a loop that returns has
\* visited every step.
C6_StepsInPlanOrder ==
    /\ \A i \in DOMAIN trace :
          /\ trace[i].idx = i
          /\ i <= Len(args.plan)
          /\ trace[i].how = IF args.plan[i].action \in
                                  {"manage-repos", "dnf-install",
                                   "dnf-distro-sync", "reboot-system",
                                   "run-installer", "recover-system", "nop"}
                            THEN "run" ELSE "skip"
    /\ proc = "run" /\ pc = "step" => step_no = Len(trace) + 1
    /\ proc = "run" /\ pc # "step" => step_no = Len(trace)
    /\ (trace # <<>> /\ Last(trace).how = "skip") =>
          /\ step_no = Len(trace) + 1
          /\ \/ proc = "run" /\ pc = "step"
             \/ proc = "exit" /\ pc = "returned"
    /\ pc = "returned" => Len(trace) = Len(args.plan) /\ exit_code = 0

\* A loop that returned after it had skipped a step and run the steps that
\* follow it.
C6_Witness ==
    /\ pc = "returned"
    /\ \E i \in DOMAIN trace :
          /\ trace[i].how = "skip"
          /\ i + 2 <= Len(trace)
          /\ trace[i + 1].how = "run"
          /\ trace[i + 2].how = "run"

\* A version number without one leading "V".
StripOneV(v) == IF v # <<>> /\ Head(v) = "V" THEN Tail(v) ELSE v
\* data_info answered, before command i and in the same step, with an
\* answer that the test Accepts(step, info) lets pass.
ValidatedBefore(i, Accepts(_, _)) ==
    \E j \in 1..(i - 1) :
        /\ cmds[j].what = "GET data_info"
        /\ cmds[j].step = cmds[i].step
        /\ cmds[j].arg # <<>>
        /\ Accepts(args.plan[cmds[i].step], cmds[j].arg[1])
AcceptsOneV(step, info) ==
    /\ info.state = "valid"
    /\ info.release_line = step.requested_line
    /\ info.flavor = step.requested_flavor
    /\ StripOneV(info.number) = StripOneV(step.requested_version)
AcceptsAllV(step, info) ==
    /\ info.state = "valid"
    /\ info.release_line = step.requested_line
    /\ info.flavor = step.requested_flavor
    /\ LStrip(info.number, "V") = LStrip(step.requested_version, "V")
NoRebootAfterRejection(Accepts(_, _)) ==
    \A j \in DOMAIN cmds :
        (/\ cmds[j].what = "GET data_info"
         /\ cmds[j].arg # <<>>
         /\ ~Accepts(args.plan[cmds[j].step], cmds[j].arg[1])) =>
            /\ j = Len(cmds)
            /\ proc = "exit"
            /\ RaisedByStep("RuntimeError")

C8_InvalidSystemEndsPlan ==
    \A i \in DOMAIN cmds :
        (/\ cmds[i].what = "GET system_info"
         /\ cmds[i].arg # <<>>
         /\ cmds[i].arg[1] # "valid") =>
            /\ i = Len(cmds)
            /\ i >= 3
            /\ cmds[i - 2].what = "POST replace_system"
            /\ cmds[i - 1].what = "POST verify_system"
            /\ proc = "exit"
            /\ exit_code = 1
            /\ RaisedByStep("RuntimeError")
            /\ NoLaterStep
            /\ step_no = cmds[i].step
            /\ ~Issued("POST replace_data")
            /\ ~Issued("POST reboot_system")

\* system_info reported "invalid" in a run-installer step that a
\* recover-system step with a recovery_data_url follows.
C8_Witness ==
    /\ cmds # <<>>
    /\ Last(cmds).what = "GET system_info"
    /\ Last(cmds).arg = <<"invalid">>
    /\ proc = "exit"
    /\ step_no < Len(args.plan)
    /\ args.plan[step_no + 1].action = "recover-system"
    /\ args.plan[step_no + 1].has_recovery_data_url

\* The planner's inputs as the formulas see them: the installed main system,
\* the target release line, the actions of the emitted plan.
InstalledMain == MainSystem_get_system_version(planner.etc).val
TargetLine ==
    IF planner.opts.target_release_line.some
    THEN planner.opts.target_release_line.val
    ELSE InstalledMain.release_line
Emitted == planner.out.val
HasStep(a) == \E i \in DOMAIN Emitted : Emitted[i].action = a

\* C9: the planner takes the package-manager path exactly when the target
\* release line (the requested one, or the installed one when none is
\* requested) is the release line of the installed main system and
\* --force-image-files is not set, and the recovery path otherwise; an
\* emitted plan of the package-manager path ends with reboot-system and has
\* no recover-system step, and an emitted plan for another release line has a
\* recover-system step and no manage-repos, dnf-install or reboot-system
\* step.
C9_PathByReleaseLine ==
    /\ planner.path # "none" =>
          /\ planner.path \in {"package", "recovery"}
          /\ planner.path = "package" <=>
                /\ TargetLine = InstalledMain.release_line
                /\ ~planner.opts.force_image_files
    /\ planner.out.some /\ planner.path = "package" =>
          /\ Last(Emitted).action = "reboot-system"
          /\ ~HasStep("recover-system") /\ ~HasStep("run-installer")
    /\ planner.out.some /\ TargetLine # InstalledMain.release_line =>
          /\ HasStep("recover-system")
          /\ ~HasStep("manage-repos") /\ ~HasStep("dnf-install")
          /\ ~HasStep("reboot-system")
C9_Witness ==
    /\ planner.out.some
    /\ TargetLine # InstalledMain.release_line
    /\ ~planner.opts.force_image_files
    /\ HasStep("recover-system")

\* C10: a plan emitted on the recovery path is the nop step, then the
\* run-installer step if and only if ensure_recovery_system_compatibility
\* returned one, then one recover-system step as the last step; that step
\* carries recovery_data_url if and only if the version of the installed
\* recovery data cannot be read or is not the target version.
C10_RecoveryPlan ==
    planner.out.some /\ planner.path = "recovery" =>
        LET n == Len(Emitted) IN
        /\ n = IF planner.ensured.some THEN 3 ELSE 2
        /\ Emitted[1].action = "nop"
        /\ planner.ensured.some =>
              /\ Emitted[2] = planner.ensured.val
              /\ Emitted[2].action = "run-installer"
        /\ Emitted[n].action = "recover-system"
        /\ Emitted[n].has_recovery_data_url <=>
              \/ ~planner.dv.some
              \/ planner.dv.val.version_number # planner.target_version
C10_Witness ==
    /\ planner.out.some /\ planner.path = "recovery"
    /\ planner.ensured.some
    /\ planner.dv.some
    /\ planner.dv.val.version_number # planner.target_version
    /\ Last(Emitted).has_recovery_data_url


\* ------------------------------------------------ the recovery system
\* The planner is at "data" exactly when
\* ensure_recovery_system_compatibility has just returned.
EnsureReturned == planner.pc = "data"
CompatDocRead == planner.compat_json.val
RsysVersion == planner.recovery_version.val.version_number
\* A revision is compatible with a version iff at least one of its vranges
\* contains the version.
CompatibleWith(revision, version) ==
    \E j \in DOMAIN revision.ranges :
        InRange(from_vrange(revision.ranges[j]), version) = Ok(TRUE)
CompatibleWithBoth(revision) ==
    /\ CompatibleWith(revision, planner.target_version)
    /\ CompatibleWith(revision, RsysVersion)

\* C11: ensure_recovery_system_compatibility returns None exactly when
\* force_rsys_update is false and at least one revision of the document is
\* compatible with both the target version and the version of the installed
\* recovery system.
C11_NoneIffCompatibleWithBoth ==
    EnsureReturned =>
        (~planner.ensured.some
            <=> /\ ~planner.opts.force_rsys_update
                /\ \E i \in DOMAIN CompatDocRead.compatibility :
                       CompatibleWithBoth(CompatDocRead.compatibility[i]))
\* It returned None for the document of the tests, which has two revisions
\* for the target version.
C11_Witness ==
    /\ EnsureReturned
    /\ ~planner.ensured.some
    /\ Len(CompatDocRead.rank) = 3

\* The positions of rank whose revision is compatible with the version.
RankedFor(doc, version) ==
    {i \in DOMAIN doc.rank :
        \E k \in DOMAIN doc.compatibility :
            /\ doc.compatibility[k].rev = doc.rank[i]
            /\ CompatibleWith(doc.compatibility[k], version)}
Latest(positions) == CHOOSE i \in positions : \A j \in positions : j <= i
\* The outcome p of the call for the document doc: it returned None, it
\* returned the run-installer step for the revision rev, or it failed.
ReturnedNone(p) == p.pc = "data" /\ ~p.ensured.some
ReturnedInstaller(p, rev) ==
    /\ p.pc = "data" /\ p.ensured.some
    /\ p.ensured.val.action = "run-installer"
    /\ p.ensured.val.installer_url = rev
    /\ p.strategy[Len(p.strategy)] = p.ensured.val
EnsureFailed(p) == p.pc = "exit" /\ p.exit = 1 /\ p.out = None
IsTestsDocument(doc) == doc.rank = <<"3-r0", "3-r1", "3-r2">>
TestsCase(p, rsys, target) ==
    /\ IsTestsDocument(p.compat_json.val)
    /\ p.recovery_version.val.version_number.some
    /\ VersionStr(p.recovery_version.val.version_number.val) = rsys
    /\ VersionStr(p.target_version.val) = target

\* C12: when ensure_recovery_system_compatibility does not return None for
\* a document, it returns the run-installer step for the revision that is
\* latest in rank among those compatible with the target version, or it
\* fails when no revision of rank is compatible with the target version;
\* with the document of the tests, installed 2.7.4 with target 3.0.0 and
\* installed 4.0.9 with target 3.0.2 both give revision 3-r1.
C12_BestOfRankOrFailure ==
    [][(planner.pc = "compat" /\ planner'.compat_json.some) =>
         /\ ~ReturnedNone(planner') =>
               IF RankedFor(planner'.compat_json.val,
                            planner.target_version) = {}
               THEN EnsureFailed(planner')
               ELSE ReturnedInstaller(
                        planner',
                        planner'.compat_json.val.rank[
                            Latest(RankedFor(planner'.compat_json.val,
                                             planner.target_version))])
         /\ (\/ TestsCase(planner', Dotted("2", "7", "4"), Dotted("3", "0", "0"))
             \/ TestsCase(planner', Dotted("4", "0", "9"), Dotted("3", "0", "2")))
              => ReturnedInstaller(planner', "3-r1")]_vars
\* The call selected 3-r1 coming from 2.7.4.
C12_Witness ==
    /\ EnsureReturned
    /\ TestsCase(planner, Dotted("2", "7", "4"), Dotted("3", "0", "0"))
    /\ ReturnedInstaller(planner, "3-r1")

\* ------------------------------------------------ the package-manager path
\* The planner has computed the strategy of the package-manager path from
\* what it read; its steps follow the nop step.
PackagePlanned ==
    planner.path = "package" /\ planner.pc = "write" /\ planner.read.some
ManageRepos == planner.strategy[2]
InstalledFlavor == planner.main_version.val.flavor
\* The target flavor defaults to the installed flavor, and "stable" is the
\* empty flavor; None if there is neither.
NormalisedTarget ==
    LET wanted == IF planner.opts.target_flavor.some
                  THEN planner.opts.target_flavor ELSE InstalledFlavor
    IN  IF wanted = Some("stable") THEN Some("") ELSE wanted
TargetNonEmpty == NormalisedTarget.some /\ NormalisedTarget.val # ""
\* The configured flavor is the value of the variable strbo_flavor: it
\* exists if the file can be read and holds a flavor.
FlavorFieldsFor(configured) ==
    LET exists == configured.some /\ configured.val # <<>>
        differs == FlavorDiffers(configured, NormalisedTarget)
    IN  /\ ManageRepos.action = "manage-repos"
        /\ ManageRepos.disable_flavor.some <=> (exists /\ differs)
        /\ ManageRepos.enable_flavor.some <=> (TargetNonEmpty /\ differs)
Trimmed(content) == IF content.some THEN Some(Strip(content.val)) ELSE None

\* C13: the manage-repos step carries disable_flavor iff a configured flavor
\* exists and differs from the normalised target flavor, and enable_flavor
\* iff the normalised target flavor is non-empty and differs from the
\* configured flavor.
C13_FlavorFieldsByConfiguredFlavor ==
    PackagePlanned => FlavorFieldsFor(Trimmed(planner.read.val.configured_flavor))
\* The same with the untrimmed content of the file in the place of the
\* configured flavor: this is what the planner does.
C13_FlavorFieldsByFileContent ==
    PackagePlanned => FlavorFieldsFor(planner.read.val.configured_flavor)

\* The resolved target version: the one given, else the one of latest.txt.
ResolvedTarget ==
    IF planner.opts.target_version.some THEN planner.opts.target_version
    ELSE _read_latest_txt_file(planner.read.val.latest)
FlavorChanged == NormalisedTarget # InstalledFlavor
DnfInstalls ==
    {i \in DOMAIN planner.strategy :
        planner.strategy[i].action = "dnf-install"}
SameAsInstalled(resolved) ==
    /\ resolved.some
    /\ VersionEq(resolved.val, planner.main_version.val.version_number.val)
    /\ ~FlavorChanged
OneDnfInstallFor(resolved) ==
    /\ Cardinality(DnfInstalls) = 1
    /\ \A i \in DnfInstalls :
          planner.strategy[i].requested_version = VersionStr(resolved.val)
DnfInstallFor(resolved) ==
    IF ~resolved.some \/ SameAsInstalled(resolved) THEN DnfInstalls = {}
    ELSE OneDnfInstallFor(resolved)

\* C14: the plan of the package-manager path has no dnf-install step when
\* the resolved target version is the installed version and the flavor was
\* not changed, or when no target version was given and latest.txt gives
\* none; in every other case it has exactly one dnf-install step, whose
\* requested_version is the resolved target version.
C14_DnfInstallForResolvedTarget ==
    PackagePlanned => DnfInstallFor(ResolvedTarget)
\* A plan without dnf-install for the installed version, and the flavor is
\* the installed one.
C14_Witness ==
    /\ PackagePlanned
    /\ SameAsInstalled(ResolvedTarget)
    /\ DnfInstalls = {}
\* A plan with dnf-install for the installed version: the flavor changes.
C14_WitnessFlavorChanged ==
    /\ PackagePlanned
    /\ FlavorChanged
    /\ planner.opts.target_version.some
    /\ VersionEq(planner.opts.target_version.val,
                 planner.main_version.val.version_number.val)
    /\ DnfInstalls # {}

\* a is strictly older than b in the lexicographic order of the lists of
\* numbers: smaller at the first place where they differ, or a proper
\* prefix.
StrictlyOlder(a, b) ==
    \/ \E k \in DOMAIN a \cap DOMAIN b :
          /\ a[k] < b[k]
          /\ \A j \in 1..(k - 1) : a[j] = b[j]
    \/ /\ Len(a) < Len(b)
       /\ \A j \in DOMAIN a : a[j] = b[j]
ListedUpdata == planner.read.val.manifest.updata
UpdataUpdateFor(step, listed) ==
    /\ step.updata_update = Some("deferred_removal") <=> ~listed.some
    /\ step.updata_update = Some("deferred_downgrade")
          <=> (listed.some /\ StrictlyOlder(listed.val, this_version))
    /\ (listed.some /\ ~StrictlyOlder(listed.val, this_version))
          => ~step.updata_update.some

\* C15: the dnf-install step carries updata_update = deferred_removal iff
\* the manifest of the target lists no package updata, deferred_downgrade
\* iff it lists a version of UpdaTA strictly older than the running one,
\* and no updata_update when the listed version is equal or newer.
C15_UpdataUpdateByManifest ==
    PackagePlanned =>
        \A i \in DnfInstalls :
            UpdataUpdateFor(planner.strategy[i], ListedUpdata)
\* A dnf-install step for a manifest with an older UpdaTA that is a proper
\* prefix of the running version.
C15_Witness ==
    /\ PackagePlanned
    /\ ListedUpdata = Some(<<2>>)
    /\ \E i \in DnfInstalls :
          planner.strategy[i].updata_update = Some("deferred_downgrade")

\* The steps that the package-manager path added to the nop step of main().
PathSteps(actions) ==
    {i \in 2..Len(planner.strategy) : planner.strategy[i].action \in actions}

\* C16: on the package-manager path reboot-system is appended as the last
\* step of the plan if the path emitted a manage-repos or a dnf-install
\* step; if it emitted none, the plan has no reboot-system step.
C16_RebootAfterPackageSteps ==
    PackagePlanned =>
        IF PathSteps({"manage-repos", "dnf-install"}) # {}
        THEN PathSteps({"reboot-system"}) = {Len(planner.strategy)}
        ELSE PathSteps({"reboot-system"}) = {}
\* A plan of manage-repos alone, followed by reboot-system.
C16_Witness ==
    /\ PackagePlanned
    /\ DnfInstalls = {}
    /\ Len(planner.strategy) = 3
    /\ planner.strategy[3].action = "reboot-system"

\* ------------------------------------------------------- the exit status
\* The planner has ended with the status and has written no plan.
EndedWithout(status) ==
    planner.pc = "exit" /\ planner.exit = status /\ ~planner.out.some
MainUnreadable ==
    /\ planner.pc \notin {"args", "start"}
    /\ ~MainSystem_get_system_version(planner.etc).some
RecoveryUnreadable ==
    /\ planner.recovery_etc.some
    /\ ~RecoverySystem_get_system_version(planner.recovery_etc.val).some

\* C17: the planner exits with status 23 when the version of the main
\* system cannot be read, and with status 24 when on the recovery path the
\* version of the recovery system cannot be read; in both cases it ends
\* without writing a plan.
C17_ExitStatusOfUnreadableVersions ==
    /\ MainUnreadable => EndedWithout(23)
    /\ RecoveryUnreadable => EndedWithout(24)
\* The recovery path ended with status 24.
C17_Witness ==
    RecoveryUnreadable /\ planner.path = "recovery" /\ EndedWithout(24)
\* The planner ended with status 23.
C17_WitnessMain == MainUnreadable /\ EndedWithout(23)

\* ------------------------------------------------ package-manager variables
\* The step of the executor is a whole do_manage_repos, not in offline mode
\* and without --reboot-only.
ManageReposExecuted ==
    /\ AtStep("manage-repos")
    /\ proc' = "run" /\ step_no' = step_no + 1
    /\ ~args.reboot_only /\ ~in_offline_mode
\* The value of a variable is the content of its file without the line end.
ValueOf(vs, name) == Trimmed(vs[name])
\* A step carries a flavor to disable if the key has a flavor.
CarriesDisable(step) ==
    step.disable_flavor.some /\ step.disable_flavor.val # <<>>
WrittenBy(step) ==
    /\ ValueOf(dnf_vars', "strbo_release_line") = step.release_line
    /\ ValueOf(dnf_vars', "strbo_update_baseurl") = step.base_url
    /\ ValueOf(dnf_vars', "strbo_base_enabled") = Some(<<"1">>)
    /\ IF step.enable_flavor.some
       THEN /\ ValueOf(dnf_vars', "strbo_flavor") = step.enable_flavor
            /\ ValueOf(dnf_vars', "strbo_flavor_enabled") = Some(<<"1">>)
       ELSE IF CarriesDisable(step)
       THEN /\ dnf_vars'["strbo_flavor"] = dnf_vars["strbo_flavor"]
            /\ ValueOf(dnf_vars', "strbo_flavor_enabled") = Some(<<"0">>)
       ELSE /\ dnf_vars'["strbo_flavor"] = dnf_vars["strbo_flavor"]
            /\ dnf_vars'["strbo_flavor_enabled"]
                  = dnf_vars["strbo_flavor_enabled"]

\* C18: executing a manage-repos step, not in offline mode and without
\* --reboot-only, writes strbo_release_line and strbo_update_baseurl from
\* the step and strbo_base_enabled = 1; with enable_flavor it writes
\* strbo_flavor and strbo_flavor_enabled = 1; otherwise with disable_flavor
\* it writes strbo_flavor_enabled = 0 and leaves strbo_flavor; with neither
\* it leaves both flavor variables.
C18_ManageReposWrites ==
    [][ManageReposExecuted => WrittenBy(CurStep)]_vars
\* A flavor was enabled and then disabled: strbo_flavor is still there.
C18_Witness ==
    /\ proc = "run" /\ step_no = 3 /\ ~args.reboot_only
    /\ args.plan[2].action = "manage-repos"
    /\ CarriesDisable(args.plan[2])
    /\ ValueOf(dnf_vars, "strbo_flavor") = Some(<<"beta">>)
    /\ ValueOf(dnf_vars, "strbo_flavor_enabled") = Some(<<"0">>)
    /\ ValueOf(dnf_vars, "strbo_release_line") = Some(<<"V4">>)

\* C19: write_var(name, value) followed by read_var(name) returns exactly
\* the value, for the names and the values that do_manage_repos writes;
\* read_var of a variable without a file returns None.
C19_ReadVarReturnsWrittenValue ==
    [][ManageReposExecuted =>
         /\ read_var(dnf_vars', "strbo_release_line") = CurStep.release_line
         /\ read_var(dnf_vars', "strbo_update_baseurl") = CurStep.base_url
         /\ read_var(dnf_vars', "strbo_base_enabled") = Some(<<"1">>)
         /\ \A name \in DnfVarNames :
               dnf_vars'[name] = None => read_var(dnf_vars', name) = None]_vars

\* ------------------------------------------------------- version ranges
\* A boundary decided component by component up to its specificity sp: a
\* component strictly outside rejects, an equal one moves on to the next
\* finer one, one strictly inside accepts.
AtOrAbove(lo, v, sp) ==
    IF sp < 1 \/ v.major > lo.major THEN TRUE
    ELSE IF v.major < lo.major THEN FALSE
    ELSE IF sp < 2 \/ v.minor > lo.minor THEN TRUE
    ELSE IF v.minor < lo.minor THEN FALSE
    ELSE IF sp < 3 \/ v.patch > lo.patch THEN TRUE
    ELSE IF v.patch < lo.patch THEN FALSE
    ELSE IF lo.hotfix # "" /\ v.hotfix = "" THEN FALSE
    ELSE IF lo.hotfix # "" /\ HotfixLess(v.hotfix, lo.hotfix) THEN FALSE
    ELSE ~(sp >= 4 /\ v.beta < lo.beta)
AtOrBelow(hi, v, sp) ==
    IF sp < 1 \/ v.major < hi.major THEN TRUE
    ELSE IF v.major > hi.major THEN FALSE
    ELSE IF sp < 2 \/ v.minor < hi.minor THEN TRUE
    ELSE IF v.minor > hi.minor THEN FALSE
    ELSE IF sp < 3 \/ v.patch < hi.patch THEN TRUE
    ELSE IF v.patch > hi.patch THEN FALSE
    ELSE IF hi.hotfix = "" /\ v.hotfix # "" THEN FALSE
    ELSE IF v.hotfix # "" /\ HotfixLess(hi.hotfix, v.hotfix) THEN FALSE
    ELSE ~(sp >= 4 /\ v.beta > hi.beta)
DecidedByComponents(vr, v) ==
    /\ AtOrAbove(vr.min_version, v, pattern_specificity(vr.min_version))
    /\ AtOrBelow(vr.max_version.val, v,
                 pattern_specificity(vr.max_version.val))
\* For a range with both boundaries and a version of the same kind,
\* contains is what the components decide.
ContainsAsDecided(vr, v) ==
    (/\ vr.ok /\ vr.val.max_version.some
     /\ (v.beta = NoneV) = (vr.val.min_version.beta = NoneV))
        => contains(vr.val, Some(v)) = Ok(DecidedByComponents(vr.val, v))
\* The versions that the planner asks the ranges of the document for.
AskedVersions ==
    {planner.target_version.val}
    \cup (IF RsysVersion.some THEN {RsysVersion.val} ELSE {})
RangeAt(ij) == CompatDocRead.compatibility[ij[1]].ranges[ij[2]]

\* C20: for a range with both boundaries and a version of the same kind,
\* contains decides each boundary component by component from major down
\* to the specificity of the boundary; a version whose major is strictly
\* below the major of the upper boundary is not rejected for its finer
\* components.
C20_ContainsDecidesByComponents ==
    (planner.compat_json.some /\ planner.recovery_version.some) =>
        \A ij \in CompatRanges(CompatDocRead.compatibility) :
            \A v \in AskedVersions :
                ContainsAsDecided(from_vrange(RangeAt(ij)), v)
\* The range ['2.3.4', '2.*.*'] rejects 2.1.2 and accepts 2.9.0: the
\* revision 2-r0 has this range alone.
C20_DoctestRange ==
    (/\ planner.compat_json.some /\ planner.recovery_version.some
     /\ CompatDocRead.rank = <<"2-r0", "3-r0">> /\ RsysVersion.some) =>
        /\ VersionStr(RsysVersion.val) = Dotted("2", "1", "2")
              => ~CompatibleWith(CompatDocRead.compatibility[1], RsysVersion)
        /\ VersionStr(RsysVersion.val) = Dotted("2", "9", "0")
              => CompatibleWith(CompatDocRead.compatibility[1], RsysVersion)

\* ------------------------------------------------------- version numbers
\* The three versions are compared and none of them is a pattern.
ConcreteCompared ==
    lib.pc = "compared" /\ \A i \in 1..3 : ~is_pattern(lib.v[i].val)

\* C21: < on concrete version numbers is irreflexive and transitive, and
\* == is reflexive.
C21_StrictOrder ==
    ConcreteCompared =>
        /\ \A x \in 1..3 : ~lib.lt[x][x] /\ lib.eq[x][x]
        /\ (lib.lt[1][2] /\ lib.lt[2][3]) => lib.lt[1][3]
\* A stable version, a hotfix of it and a beta of it, in this order.
C21_Witness ==
    /\ ConcreteCompared
    /\ lib.lt[1][2] /\ lib.lt[2][3] /\ lib.lt[1][3]
    /\ lib.v[1].val.hotfix = "" /\ lib.v[2].val.hotfix # ""
    /\ lib.v[3].val.beta # NoneV

Triple(v) == <<v.major, v.minor, v.patch>>
TripleLess(s, t) ==
    \/ s[1] < t[1]
    \/ s[1] = t[1] /\ s[2] < t[2]
    \/ s[1] = t[1] /\ s[2] = t[2] /\ s[3] < t[3]
IsBeta(v) == v.beta # NoneV
\* The order of two concrete versions as the claim has it.
OrderedBefore(a, b) ==
    IF Triple(a) # Triple(b) THEN TripleLess(Triple(a), Triple(b))
    ELSE IF ~IsBeta(a) /\ IsBeta(b) THEN TRUE
    ELSE IF IsBeta(a) /\ ~IsBeta(b) THEN FALSE
    ELSE IF IsBeta(a) THEN a.beta < b.beta
    ELSE IF a.hotfix = "" THEN b.hotfix # ""
    ELSE b.hotfix # "" /\ HotfixLess(a.hotfix, b.hotfix)

\* C22: for equal (major, minor, patch) a stable version is < every beta
\* version, a version without hotfix is < every one with a hotfix, two
\* hotfix versions compare by their letter, two beta versions by their beta
\* number, and a beta version is never < a stable one; with different
\* (major, minor, patch) the triple decides.
C22_OrderOfKinds ==
    ConcreteCompared =>
        \A x \in 1..3 : \A y \in 1..3 :
            lib.lt[x][y] = OrderedBefore(lib.v[x].val, lib.v[y].val)
\* A hotfix version is before a beta version of the same triple, and the
\* beta version is before a stable version of a later triple.
C22_Witness ==
    /\ ConcreteCompared
    /\ lib.v[1].val.hotfix # "" /\ IsBeta(lib.v[2].val)
    /\ Triple(lib.v[1].val) = Triple(lib.v[2].val)
    /\ lib.lt[1][2] /\ ~lib.lt[2][1]
    /\ ~IsBeta(lib.v[3].val) /\ lib.lt[2][3]

\* Every component of the pattern p that is no wildcard is the one of c.
ComponentsAgree(p, c) ==
    /\ IsBeta(p) = IsBeta(c)
    /\ p.major = Star \/ p.major = c.major
    /\ p.minor = Star \/ p.minor = c.minor
    /\ p.patch = Star \/ (p.patch = c.patch /\ p.hotfix = c.hotfix)
    /\ p.beta \in {Star, NoneV} \/ p.beta = c.beta

\* C23: p.matches(c) for a concrete c is true exactly when p and c agree on
\* whether beta is there and every component of p that is no wildcard is
\* the one of c; for a concrete p it is equality; for a pattern as the
\* argument it raises.
C23_MatchesByComponents ==
    lib.pc = "matched" =>
        IF is_pattern(lib.v[2].val) THEN ~lib.matched.ok
        ELSE /\ lib.matched.ok
             /\ lib.matched.val = ComponentsAgree(lib.v[1].val, lib.v[2].val)
             /\ ~is_pattern(lib.v[1].val) =>
                   lib.matched.val = VersionEq(lib.v[1].val, lib.v[2].val)
\* The pattern 1.2.* matches a hotfix version.
C23_Witness ==
    /\ lib.pc = "matched" /\ lib.matched = Ok(TRUE)
    /\ is_pattern(lib.v[1].val) /\ lib.v[1].val.patch = Star
    /\ lib.v[1].val.minor # Star
    /\ lib.v[2].val.hotfix # ""

\* The components of a text, the first without its V; a wildcard is a
\* component that is "*".
TextComponents(text) ==
    LET v == Split(text, ".") IN
    [i \in DOMAIN v |-> IF i = 1 THEN StripOneV(v[i]) ELSE v[i]]
HasStar(text) == "*" \in Range(text)
RightAligned(comps) ==
    /\ \A i \in DOMAIN comps : HasStar(comps[i]) => comps[i] = <<"*">>
    /\ \A i \in DOMAIN comps : \A j \in DOMAIN comps :
          (i < j /\ comps[i] = <<"*">>) => comps[j] = <<"*">>
ParsedAsAllowed(text, v, is_pattern_allowed) ==
    /\ (HasStar(text) /\ ~is_pattern_allowed) => ~v.ok
    /\ (HasStar(text) /\ ~RightAligned(TextComponents(text))) => ~v.ok
    /\ (v.ok /\ v.val.hotfix # "") => (~is_pattern(v.val) /\ ~HasStar(text))
    /\ (v.ok /\ HasStar(text)) => is_pattern(v.val)

\* C24: from_string rejects every wildcard when patterns are not allowed;
\* when they are, it accepts wildcards only as the rightmost components: a
\* component that is no wildcard to the right of a wildcard, and a wildcard
\* with a hotfix letter, are errors; a parsed version with a hotfix is
\* concrete.
C24_WildcardsRightAligned ==
    lib.pc = "parsed" =>
        /\ ParsedAsAllowed(lib.a, lib.v[1], lib.is_pattern_allowed)
        /\ ParsedAsAllowed(lib.b, lib.v[2], lib.is_pattern_allowed)
        /\ ParsedAsAllowed(lib.c, lib.v[3], lib.is_pattern_allowed)
\* Patterns are allowed: 1.2.* is parsed, V1.*.2.* and 1.2.*a are errors.
C24_Witness ==
    /\ lib.pc = "parsed" /\ lib.is_pattern_allowed
    /\ lib.a = <<"1", ".", "2", ".", "*">> /\ lib.v[1].ok
    /\ lib.b = <<"V", "1", ".", "*", ".", "2", ".", "*">> /\ ~lib.v[2].ok
    /\ lib.c = <<"1", ".", "2", ".", "*", "a">> /\ ~lib.v[3].ok

\* C25: for a text that from_string accepts, str of the version is accepted
\* again and gives an equal version.
C25_StrRoundTrip ==
    lib.pc = "formatted" =>
        /\ lib.again.ok
        /\ VersionEq(lib.again.val, lib.v[1].val)
\* The text 01.2.3a with a leading zero is formatted as 1.2.3a.
C25_Witness ==
    /\ lib.pc = "formatted"
    /\ lib.a = <<"0", "1", ".", "2", ".", "3", "a">>
    /\ lib.str = <<"1", ".", "2", ".", "3", "a">>
    /\ lib.again.ok

\* ------------------------------------------------- get_data_version
GdvEnded == lib.pc \in {"returned", "raised"}
RunOf(cmd) == {i \in DOMAIN lib.run : lib.run[i].cmd = cmd}
MountSucceeded ==
    \E i \in RunOf("mount") : lib.run[i].outcome = "ok"
MountFailed ==
    \E i \in RunOf("mount") : lib.run[i].outcome # "ok"

\* C26: when the partition is not declared mounted, get_data_version runs
\* umount exactly once after every successful mount, whatever way it ends,
\* and no umount when the mount failed; when the partition is declared
\* mounted it runs neither mount nor umount; a file that cannot be read
\* gives None.
C26_UmountAfterMount ==
    /\ lib.pc \in {"get_data_version", "parse", "finally", "returned",
                   "raised"} =>
          /\ Cardinality(RunOf("umount")) <= 1
          /\ \A i \in RunOf("umount") : i = 2 /\ lib.run[1].cmd = "mount"
                                              /\ lib.run[1].outcome = "ok"
          /\ lib.data_mountpoint_mounted => lib.run = <<>>
          /\ lib.pc = "raised" => MountSucceeded
    /\ (GdvEnded /\ ~lib.data_mountpoint_mounted) =>
          /\ Cardinality(RunOf("mount")) = 1
          /\ MountSucceeded => Cardinality(RunOf("umount")) = 1
          /\ MountFailed => RunOf("umount") = {}
    /\ (lib.pc = "returned" /\ ~lib.release.some) => lib.result = None
\* Mounted, no file to read, unmounted, None returned.
C26_Witness ==
    /\ lib.pc = "returned" /\ ~lib.data_mountpoint_mounted
    /\ ~lib.is_test_mode /\ ~lib.release.some
    /\ Len(lib.run) = 2 /\ lib.run[2].cmd = "umount"
    /\ lib.result = None
\* The mount failed: no umount, None returned.
C26_WitnessMountFailed ==
    /\ lib.pc = "returned" /\ MountFailed /\ Len(lib.run) = 1
    /\ lib.result = None

\* ------------------------------------------------- privileges of the planner
\* main() has gone past run_as_user and has read /etc of the main system.
SystemStateRead ==
    /\ planner.pc \notin {"off", "args", "start"}
    /\ ~(planner.pc = "exit" /\ planner.exit = 1 /\ planner.path = "none")
StartedWithoutTestOptions == planner.test = DefaultTestArgs

\* C27: started without --test-sysroot and without --test-version, the
\* planner runs as user updata before it reads any system state.
C27_DropsPrivileges ==
    (SystemStateRead /\ StartedWithoutTestOptions) => planner.user = "updata"
\* Started with a test option, the planner keeps its user.
C27_KeepsUserInTestMode ==
    (SystemStateRead /\ ~StartedWithoutTestOptions) => planner.user = "root"
C27_ReadAsRoot ==
    SystemStateRead /\ StartedWithoutTestOptions /\ planner.user = "root"

\* ----------------------------------------------------- phase 1 of dnf-install
\* t is the first token of the line: what follows the leading blanks of
\* the line up to the next blank or the end.
IsFirstTokenOf(t, line) ==
    /\ t # <<>> /\ " " \notin Range(t)
    /\ \E k \in 0..Len(line) :
          /\ \A i \in 1..k : line[i] = " "
          /\ k + Len(t) <= Len(line)
          /\ SubSeq(line, k + 1, k + Len(t)) = t
          /\ k + Len(t) = Len(line) \/ line[k + Len(t) + 1] = " "
NonEmptyLines(lines) == SelectSeq(lines, IsLine)
\* manifest.txt holds the first token of every non-empty line of the
\* manifest, in the order of the lines.
ManifestWritten ==
    /\ manifest_txt.some
    /\ Len(manifest_txt.val) = Len(NonEmptyLines(server))
    /\ \A i \in DOMAIN manifest_txt.val :
          IsFirstTokenOf(manifest_txt.val[i], NonEmptyLines(server)[i])
Position(what) ==
    IF Issued(what) THEN CHOOSE i \in DOMAIN cmds : cmds[i].what = what
    ELSE 0
\* The run is over with an exception of the manifest request or of the
\* download of the packages.
DownloadFailed ==
    /\ proc = "exit" /\ runs # <<>> /\ Last(runs).phase = "download"
    /\ raised.at = "step" /\ cmds # <<>>
    /\ Last(cmds).what \in {"GET version_file_url",
                            "dnf install --downloadonly"}

\* C28: the download phase of dnf-install creates the symlink only after
\* the manifest was fetched and written to manifest.txt and, for a list of
\* packages that is not empty, after the download; when the manifest
\* request or the download fails there is no symlink, no
\* ExitForOfflineUpdate and no reboot; a symlink that exists comes with a
\* manifest.txt of the first tokens of the non-empty manifest lines.
C28_SymlinkAfterDownload ==
    /\ symlink => ManifestWritten
    /\ (proc = "run" /\ Issued("ln -s dnf_work_dir /system-update")) =>
          /\ Issued("GET version_file_url")
          /\ Position("GET version_file_url")
                < Position("ln -s dnf_work_dir /system-update")
          /\ ManifestWritten
          /\ manifest_txt.val # <<>> =>
                /\ Issued("dnf install --downloadonly")
                /\ Position("GET version_file_url")
                      < Position("dnf install --downloadonly")
                /\ Position("dnf install --downloadonly")
                      < Position("ln -s dnf_work_dir /system-update")
    /\ DownloadFailed =>
          /\ ~symlink
          /\ raised.exc # "ExitForOfflineUpdate"
          /\ ~Issued("ln -s dnf_work_dir /system-update")
          /\ ~Issued("systemctl isolate reboot.target")
\* The symlink is there after a download of two packages from a manifest
\* of two lines and an empty one.
C28_Witness ==
    /\ symlink /\ proc = "run" /\ pc = "offline_exit"
    /\ Len(server) = 3 /\ Len(manifest_txt.val) = 2
    /\ Issued("dnf install --downloadonly")
\* The download failed: the run is over without the symlink.
C28_WitnessDownloadFailed ==
    /\ DownloadFailed /\ Last(cmds).what = "dnf install --downloadonly"
    /\ ManifestWritten

\* ----------------------------------------------------- phase 2 of dnf-install
\* The manifest set: the lines of manifest.txt, none for a file that
\* cannot be read.
ManifestSet == IF manifest_txt.some THEN Range(manifest_txt.val) ELSE {}
IsUpdataPackage(p) == p.name = <<"u", "p", "d", "a", "t", "a">>
DeferredStep ==
    CurStep.updata_update \in {Some("deferred_removal"),
                               Some("deferred_downgrade")}
\* The installed packages that the manifest does not list, without the
\* UpdaTA packages for a step that defers them.
NotListed ==
    {PackageId(p) : p \in {q \in installed :
                             /\ PackageId(q) \notin ManifestSet
                             /\ ~(DeferredStep /\ IsUpdataPackage(q))}}
InstalledUpdata == {PackageId(p) : p \in {q \in installed : IsUpdataPackage(q)}}
\* The installed packages are listed and the remove command comes next.
BeforeRemove == At("ou_remove") /\ Last(cmds).what = "dnf list --installed"
RemoveArgs == {cmds[i].arg : i \in {j \in DOMAIN cmds : cmds[j].what = "dnf remove"}}
DeferredAsClaimed ==
    /\ (DeferredStep /\ loc.mode = Some("deferred_removal")) =>
          loc.r_deferred_residual = InstalledUpdata
    /\ (DeferredStep /\ loc.mode = Some("deferred_downgrade")) =>
          loc.r_deferred_residual = {}
    /\ ~DeferredStep => loc.r_deferred_residual = {}

\* C29 as claimed: the packages passed to the main remove command are the
\* installed packages that the manifest set does not hold, without the
\* UpdaTA packages in the deferred modes.
C29_RemovedAreNotListed ==
    BeforeRemove => (loc.residual = NotListed /\ DeferredAsClaimed)
\* C29: with a manifest set that is not empty, the packages passed to the
\* main remove command are the installed packages that the set does not
\* hold, without the UpdaTA packages in the deferred modes (held back for
\* the deferred remove command in the mode deferred_removal, not removed in
\* the mode deferred_downgrade); with an empty manifest set, or without
\* manifest.txt, no package is passed to the main remove command.
C29_RemovedAreNotListedUnlessEmpty ==
    /\ BeforeRemove =>
          /\ loc.residual = IF ManifestSet = {} THEN {} ELSE NotListed
          /\ DeferredAsClaimed
    /\ (proc = "run" /\ pc \in {"ou_ldconfig_remove", "ou_deferred_install"}) =>
          RemoveArgs = {loc.residual} \ {{}}
\* A manifest of one package, a step that defers the removal of UpdaTA:
\* two packages are to be removed, the installed UpdaTA is held back.
C29_Witness ==
    /\ BeforeRemove /\ ManifestSet # {}
    /\ loc.mode = Some("deferred_removal")
    /\ Cardinality(loc.residual) >= 1
    /\ loc.r_deferred_residual # {}
\* An empty manifest: nothing is removed though nothing installed is listed.
C29_WitnessEmptyManifest ==
    /\ BeforeRemove /\ manifest_txt = Some(<<>>)
    /\ loc.residual = {} /\ NotListed # {}

\* The downloaded packages, as tempfiles.json lists them.
Downloaded == IF tempfiles.some THEN tempfiles.val ELSE <<>>
IsUpdataFile(p) ==
    SubSeq(FileName(p), 1, 7) = <<"u", "p", "d", "a", "t", "a", "-">>
DownloadedUpdata == SelectSeq(Downloaded, IsUpdataFile)
\* Phase 2 of a step flagged deferred_removal, past the loop over the
\* downloaded list, which holds a file of UpdaTA.
RemovalWithUpdataDownloaded ==
    /\ proc = "run"
    /\ pc \in {"ou_ldconfig_install", "ou_list", "ou_remove",
               "ou_ldconfig_remove", "ou_deferred_install",
               "ou_deferred_remove", "ou_cleanup", "ou_unlink"}
    /\ CurStep.updata_update = Some("deferred_removal")
    /\ DownloadedUpdata # <<>>
ArgsOf(what) == {cmds[i].arg : i \in {j \in DOMAIN cmds : cmds[j].what = what}}

\* C30: in phase 2 of a step flagged deferred_removal with a downloaded
\* file of UpdaTA the mode becomes deferred_downgrade: the file is
\* installed by the deferred install command and no installed UpdaTA
\* package is to be removed.
C30_RemovalBecomesDowngrade ==
    RemovalWithUpdataDownloaded =>
        /\ loc.mode = Some("deferred_downgrade")
        /\ loc.r_deferred_update = DownloadedUpdata
        /\ \A a \in ArgsOf("dnf install") :
              \A i \in DOMAIN a : ~IsUpdataFile(a[i])
        /\ ArgsOf("dnf install deferred") \subseteq {DownloadedUpdata}
        /\ pc \in {"ou_deferred_remove", "ou_cleanup", "ou_unlink"} =>
              ArgsOf("dnf install deferred") = {DownloadedUpdata}
        /\ loc.r_deferred_residual = {}
        /\ loc.residual \cap InstalledUpdata = {}
        /\ ArgsOf("dnf remove deferred") = {}
        /\ \A a \in ArgsOf("dnf remove") : a \cap InstalledUpdata = {}
\* The downloaded UpdaTA was installed by the deferred install command.
C30_Witness ==
    /\ RemovalWithUpdataDownloaded /\ pc = "ou_cleanup"
    /\ ArgsOf("dnf install deferred") = {DownloadedUpdata}
    /\ Range(DownloadedUpdata) \subseteq installed
    /\ InstalledUpdata # {}

\* ------------------------------------------- hotfixes at a range boundary
\* contains was asked for a range of two boundaries; the version has the
\* major, minor and patch of the boundary.
AskedRange == lib.pc = "contained" /\ lib.range.val.max_version.some
LowerBoundary == lib.range.val.min_version
UpperBoundary == lib.range.val.max_version.val
AtBoundary(boundary) == Triple(lib.version.val) = Triple(boundary)
Rejected == lib.inside = Ok(FALSE)
Accepted == lib.inside = Ok(TRUE)
HotfixAtTheBoundary ==
    /\ (AtBoundary(LowerBoundary) /\ LowerBoundary.hotfix # "") =>
          /\ lib.version.val.hotfix = "" => Rejected
          /\ (/\ lib.version.val.hotfix # ""
              /\ HotfixLess(lib.version.val.hotfix, LowerBoundary.hotfix)) =>
                Rejected
    /\ (AtBoundary(UpperBoundary) /\ UpperBoundary.hotfix # "") =>
          /\ (/\ lib.version.val.hotfix # ""
              /\ HotfixLess(UpperBoundary.hotfix, lib.version.val.hotfix)) =>
                Rejected
          /\ (/\ ~IsBeta(lib.version.val)
              /\ ~is_pattern(LowerBoundary)
              /\ ~VersionLt(lib.version.val, LowerBoundary)
              /\ \/ lib.version.val.hotfix = ""
                 \/ ~HotfixLess(UpperBoundary.hotfix,
                                lib.version.val.hotfix)) => Accepted
    /\ (AtBoundary(UpperBoundary) /\ UpperBoundary.hotfix = ""
        /\ lib.version.val.hotfix # "") => Rejected

\* C31: for a version with the major, minor and patch of a boundary, a
\* lower boundary with hotfix h rejects a version without hotfix and one
\* with a letter below h; an upper boundary with hotfix h accepts a version
\* without hotfix and one with a letter up to h and rejects a letter above
\* h; an upper boundary without hotfix rejects every version with a hotfix.
C31_HotfixAtTheBoundary == AskedRange => HotfixAtTheBoundary
\* The same for versions and upper boundaries with a major that is not 0.
C31_HotfixAtTheBoundaryMajorNotZero ==
    (AskedRange /\ lib.version.val.major # 0 /\ UpperBoundary.major # 0) =>
        HotfixAtTheBoundary
\* The range 0.9.0 to 0.9.0c holds 0.9.0d.
C31_LetterAboveAccepted ==
    /\ AskedRange /\ AtBoundary(UpperBoundary) /\ Accepted
    /\ UpperBoundary.hotfix = "c" /\ lib.version.val.hotfix = "d"
\* The range 1.2.3a to 1.2.3b rejects 1.2.3 and holds 1.2.3b.
C31_WitnessLower ==
    /\ AskedRange /\ AtBoundary(LowerBoundary) /\ Rejected
    /\ LowerBoundary.hotfix = "a" /\ lib.version.val.hotfix = ""

\* ------------------------------------------- the legacy recovery system
\* The recovery system has neither strbo-release nor os-release, its
\* version is None, and ensure_recovery_system_compatibility was called.
LegacyEnsured ==
    /\ planner.recovery_etc.some
    /\ ~planner.recovery_etc.val.strbo_release.some
    /\ ~planner.recovery_etc.val.os_release.some
    /\ planner.pc # "compat"

\* C32: for the legacy recovery system (no release file, version None)
\* ensure_recovery_system_compatibility never returns None: it plans a
\* run-installer step or it fails.
C32_LegacyNeverCompatible ==
    LegacyEnsured =>
        /\ planner.recovery_version = Some(VersionInfo(None, "V1", None))
        /\ \/ EnsureFailed(planner)
           \/ /\ planner.ensured.some
              /\ planner.ensured.val.action = "run-installer"
              /\ \E i \in DOMAIN planner.strategy :
                    planner.strategy[i] = planner.ensured.val
\* A run-installer step was planned for the legacy recovery system without
\* --force-rsys-update.
C32_Witness ==
    /\ LegacyEnsured /\ planner.pc = "data"
    /\ planner.ensured.some /\ ~planner.opts.force_rsys_update

\* ------------------------------------------------------- the base channel
\* The channel a flavor denotes: the base channel for no flavor, the empty
\* flavor and "stable".
Channel(flavor) ==
    IF flavor \in {None, Some(""), Some("stable")} THEN "base" ELSE flavor.val
\* No target flavor is requested, or the requested one denotes the channel
\* of the installed one.
SameChannel ==
    \/ ~planner.opts.target_flavor.some
    \/ Channel(planner.opts.target_flavor) = Channel(InstalledFlavor)
TargetIsInstalled ==
    /\ ResolvedTarget.some
    /\ VersionEq(ResolvedTarget.val, planner.main_version.val.version_number.val)

\* C33: the flavors "", "stable" and None denote the base channel: with no
\* target flavor requested, or one of the channel of the installed flavor,
\* the flavor was not changed, and a target version equal to the installed
\* version gives no dnf-install step.
C33_SameChannelNoInstall ==
    (PackagePlanned /\ SameChannel /\ TargetIsInstalled) => DnfInstalls = {}
\* Installed with the flavor "stable", the installed version requested, no
\* target flavor: a dnf-install step.
C33_StableInstalled ==
    /\ PackagePlanned /\ TargetIsInstalled
    /\ InstalledFlavor = Some("stable") /\ ~planner.opts.target_flavor.some
    /\ DnfInstalls # {}
\* Installed with the empty flavor, "stable" requested: no dnf-install step.
C33_EmptyInstalled ==
    /\ PackagePlanned /\ TargetIsInstalled
    /\ InstalledFlavor = Some("") /\ planner.opts.target_flavor = Some("stable")
    /\ DnfInstalls = {}

\* ------------------------------------------- fixpoint on the flavor variables
\* The executor has run a manage-repos step with enable_flavor (the target
\* flavor the planner was asked for), not in offline mode, and the planner
\* has planned again for the same target flavor.
PlannedAfterEnable ==
    /\ lib.pc = "planned" /\ ~lib.skipped
    /\ lib.step.val.enable_flavor.some

\* C34: after the executor has run a manage-repos step with enable_flavor =
\* X, planning again with the target flavor X gives a manage-repos step
\* with neither enable_flavor nor disable_flavor.
C34_FlavorFixpoint ==
    PlannedAfterEnable =>
        /\ lib.again.val.action = "manage-repos"
        /\ ~lib.again.val.enable_flavor.some
        /\ ~lib.again.val.disable_flavor.some
\* The second plan disables the flavor with its line end and enables it
\* again.
C34_EnabledAgain ==
    /\ PlannedAfterEnable
    /\ lib.again.val.enable_flavor = lib.step.val.enable_flavor
    /\ lib.again.val.disable_flavor
         = Some(lib.step.val.enable_flavor.val \o <<"\n">>)

\* ------------------------------------------------- the up-to-date device
\* The configured flavor (the trimmed content of strbo_flavor, none for a
\* file that is not there) is the normalised target flavor.
FlavorText(flavor) == IF flavor.some THEN flavor.val ELSE <<>>
ConfiguredIsTarget ==
    FlavorText(Trimmed(planner.read.val.configured_flavor))
      = (IF NormalisedTarget.some THEN AsText(NormalisedTarget.val) ELSE <<>>)
UpToDate ==
    PackagePlanned /\ TargetIsInstalled /\ ~FlavorChanged /\ ConfiguredIsTarget

\* C35: when the resolved target version is the installed version, the
\* flavor is unchanged and the configured flavor is the target flavor, the
\* plan of the package-manager path has neither a dnf-install step nor a
\* reboot-system step.
C35_UpToDateNoReboot ==
    UpToDate => PathSteps({"dnf-install", "reboot-system"}) = {}
\* The half about dnf-install.
C35_UpToDateNoInstall ==
    UpToDate => PathSteps({"dnf-install"}) = {}
\* The plan for an up-to-date device: nop, a manage-repos step without
\* flavors, reboot-system.
C35_UpToDateRebooted ==
    /\ UpToDate
    /\ Len(planner.strategy) = 3
    /\ ~ManageRepos.enable_flavor.some /\ ~ManageRepos.disable_flavor.some
    /\ planner.strategy[3].action = "reboot-system"

\* ---- C36
OfflineAware == {"manage-repos", "run-installer", "dnf-distro-sync"}

\* The loop of main() runs the handler of the step it is at.
HandlerRuns ==
    /\ proc = "run"
    /\ pc = "step"
    /\ step_no <= Len(args.plan)
    /\ trace' = Append(trace, [idx |-> step_no, how |-> "run"])

\* The handler that runs is one of the three and /system-update is there.
OfflineHandlerRuns ==
    /\ HandlerRuns
    /\ CurStep.action \in OfflineAware
    /\ symlink

\* The handler that runs is one of the three, in an execution whose
\* dnf-install step has deleted /system-update.
LaterHandlerRuns ==
    /\ HandlerRuns
    /\ CurStep.action \in OfflineAware
    /\ runs[Len(runs)].phase = "apply"
    /\ ~symlink

\* What each of the three does when nothing holds it back.
ActsNormally ==
    CASE CurStep.action = "manage-repos" ->
             /\ dnf_vars' = ManageReposWrites(CurStep, dnf_vars)
             /\ dnf_vars' # dnf_vars
      [] CurStep.action = "dnf-distro-sync" ->
             cmds' = Append(cmds, Cmd("dnf distro-sync", <<>>))
      [] CurStep.action = "run-installer" ->
             \/ /\ Len(cmds') > Len(cmds)
                /\ cmds'[Len(cmds) + 1].what = "POST replace_system"
             \/ raised'.exc = "MissingSchema"

\* C36: while /system-update exists, the steps manage-repos, run-installer
\* and dnf-distro-sync write no dnf variable, send no request and run no
\* command (the loop goes on to the next step); once the dnf-install step of
\* the same execution has deleted the symlink, they act as they do outside
\* of offline mode.
C36_OfflineStepsInert ==
    [][/\ OfflineHandlerRuns =>
            /\ UNCHANGED <<files, cmds, raised, reboot>>
            /\ step_no' = step_no + 1
       /\ LaterHandlerRuns => ActsNormally]_vars

DnfInstallAt == CHOOSE k \in DOMAIN args.plan : args.plan[k].action = "dnf-install"

\* All three steps were run in offline mode without a trace in cmds, the
\* dnf-install step applied the update, and the three after it have acted.
C36_Witness ==
    /\ proc = "run"
    /\ \E k \in DOMAIN args.plan : args.plan[k].action = "dnf-install"
    /\ runs[Len(runs)].phase = "apply"
    /\ ~symlink
    /\ \A a \in OfflineAware :
         /\ \E i \in DOMAIN trace : /\ trace[i].idx < DnfInstallAt
                                    /\ args.plan[trace[i].idx].action = a
         /\ \E i \in DOMAIN trace : /\ trace[i].idx > DnfInstallAt
                                    /\ args.plan[trace[i].idx].action = a
    /\ \A i \in DOMAIN cmds : cmds[i].step >= DnfInstallAt
    /\ \E i \in DOMAIN cmds : /\ cmds[i].step > DnfInstallAt
                              /\ cmds[i].what = "dnf distro-sync"
    /\ dnf_vars["strbo_release_line"] = Some(<<"V4", "\n">>)


\* ---- C37
\* Phase 2 has read manifest.txt and has gone through the list of the
\* installed packages.
ManifestRead ==
    /\ proc = "run"
    /\ pc \in {"ou_remove", "ou_ldconfig_remove", "ou_deferred_install",
               "ou_deferred_remove", "ou_cleanup", "ou_unlink"}
ManifestUnreadable == ManifestRead /\ ~loc.manifest
ManifestEmpty == ManifestRead /\ loc.manifest /\ manifest_txt = Some(<<>>)

\* C37: a Phase 2 that cannot read manifest.txt, or reads an empty one, has
\* no package in the residual set and does not run the main remove command.
C37_NoManifestNoRemoval ==
    (ManifestUnreadable \/ ManifestEmpty) =>
        /\ loc.residual = {}
        /\ ~Issued("dnf remove")

\* manifest.txt was not there; three packages are installed, none of them
\* is to be removed and the handler is past the remove command.
C37_Witness ==
    /\ ManifestUnreadable
    /\ pc = "ou_ldconfig_remove"
    /\ Cardinality(installed) >= 3
    /\ loc.residual = {}
C37_WitnessEmpty ==
    /\ ManifestEmpty
    /\ pc = "ou_ldconfig_remove"
    /\ Cardinality(installed) >= 3
    /\ loc.residual = {}

\* ---- C38
\* Phase 2 runs without tempfiles.json: json.load(tempfiles.open()) failed
\* and r is None.
ListUnreadable ==
    /\ proc = "run"
    /\ pc \in {"ou_install", "ou_ldconfig_install", "ou_list", "ou_remove",
               "ou_ldconfig_remove", "ou_deferred_install",
               "ou_deferred_remove", "ou_cleanup", "ou_unlink"}
    /\ ~tempfiles.some
InstallsNothing == ~Issued("dnf install") /\ ~Issued("dnf install deferred")
RemovesNothing == ~Issued("dnf remove") /\ ~Issued("dnf remove deferred")

NoRebootRequested ==
    /\ ~Issued("systemctl isolate reboot.target")
    /\ ~Issued("POST reboot_system")
    /\ reboot = "no"
    /\ ~reboot_failed
    /\ raised.exc # "RebootFailedError"
    /\ exit_code # 10

\* Phase 1 has ended the process by ExitForOfflineUpdate.
EndedForOfflineUpdate ==
    /\ proc = "exit"
    /\ raised = [exc |-> "ExitForOfflineUpdate", at |-> "step"]

\* The requests of ensure_recovery_data.
RecoveryDataRequests == {"POST replace_data", "POST verify_data", "GET data_info"}

\* What the places that would ask for a reboot do with --avoid-reboot: the
\* reboot-system step does nothing and the loop goes on; the exit for the
\* offline update exits with status 0 and /system-update in place; the
\* recover-system step makes the requests of ensure_recovery_data only.
RebootPlacesSkip ==
    /\ (HandlerRuns /\ CurStep.action = "reboot-system") =>
          /\ UNCHANGED <<files, cmds, raised, reboot, reboot_failed>>
          /\ step_no' = step_no + 1
    /\ (proc = "run" /\ pc = "offline_exit" /\ proc' = "exit") =>
          /\ UNCHANGED <<files, cmds, raised>>
          /\ symlink
          /\ exit_code' = 0
    /\ (HandlerRuns /\ CurStep.action = "recover-system") =>
          /\ UNCHANGED files
          /\ Len(cmds') >= Len(cmds)
          /\ SubSeq(cmds', 1, Len(cmds)) = cmds
          /\ \A i \in (DOMAIN cmds') \ (DOMAIN cmds) :
                cmds'[i].what \in RecoveryDataRequests
          /\ raised' = raised => step_no' = step_no + 1

\* C39: with --avoid-reboot the executor never runs "systemctl isolate
\* reboot.target" and never posts to recovery_data/reboot_system, whatever
\* the plan and the step; Phase 1 still ends with /system-update created and
\* exit status 0; the places that ask for the reboot do nothing else.
C39_AvoidRebootNeverReboots ==
    /\ [](args.avoid_reboot => NoRebootRequested)
    /\ [](args.avoid_reboot /\ EndedForOfflineUpdate =>
             symlink /\ exit_code = 0)
    /\ [][args.avoid_reboot => RebootPlacesSkip]_vars

\* With --avoid-reboot Phase 1 has created the symlink and the process has
\* ended with status 0; the symlink command is the last one it ran.
C39_Witness ==
    /\ args.avoid_reboot
    /\ EndedForOfflineUpdate
    /\ symlink
    /\ exit_code = 0
    /\ Last(cmds).what = "ln -s dnf_work_dir /system-update"
\* With --avoid-reboot the recovery data were ensured by three requests and
\* the plan was run to its end.
C39_WitnessRecover ==
    /\ args.avoid_reboot
    /\ proc = "exit" /\ pc = "returned"
    /\ \E i \in DOMAIN args.plan : args.plan[i].action = "recover-system"
    /\ Issued("GET data_info")
    /\ Last(cmds).what = "GET data_info"

====
